---- MODULE Spec2Model ----
(***************************************************************************)
(* A model of src/app.py: the product-media extraction pipeline            *)
(* (URL canonicaliser, media classifier, static and dynamic extraction,    *)
(* fusion and scoring).                                                    *)
(*                                                                         *)
(* Python strings are TLA+ strings; the str methods the program uses       *)
(* (in, startswith, lower, strip, split, replace) and its regular          *)
(* expressions are written out over them.  TLA+ source text is ASCII, so   *)
(* the one non-ASCII literal the pipeline compares against, the            *)
(* placeholder title of app.py line 572, is the ASCII stand-in             *)
(* PLACEHOLDER_TITLE, and the prefix of the aggregated error of line 858   *)
(* is the stand-in STATIC_ALL_FAILED.                                      *)
(***************************************************************************)
EXTENDS Integers, Sequences, FiniteSets, TLC

\* ------------------------------------------------------------------------
\* str primitives
\* ------------------------------------------------------------------------

\* min(a, b)
Min(a, b) == IF a <= b THEN a ELSE b

\* `k in s` for strings
Contains(s, k) ==
    \E i \in 1..(Len(s) - Len(k) + 1) : SubSeq(s, i, i + Len(k) - 1) = k

\* s.startswith(p)
StartsWith(s, p) == Len(p) <= Len(s) /\ SubSeq(s, 1, Len(p)) = p

\* a regular expression's `$` after a literal (no trailing newline in a URL)
EndsWith(s, p) == Len(p) <= Len(s) /\ SubSeq(s, Len(s) - Len(p) + 1, Len(s)) = p

\* the least of a set of positions, `none` when the set is empty
Least(hits, none) ==
    IF hits = {} THEN none ELSE CHOOSE i \in hits : \A j \in hits : i <= j

\* s.find(k) + 1: the 1-based index of the leftmost occurrence, 0 if none
Find(s, k) ==
    Least({i \in 1..(Len(s) - Len(k) + 1) : SubSeq(s, i, i + Len(k) - 1) = k}, 0)

\* s.split(sep, 1)[0]
BeforeFirst(s, sep) ==
    LET Cut(i) == IF i = 0 THEN s ELSE SubSeq(s, 1, i - 1)
    IN  Cut(Find(s, sep))

\* s.split(sep, 1)[1], "" when sep does not occur
AfterFirst(s, sep) ==
    LET Cut(i) == IF i = 0 THEN "" ELSE SubSeq(s, i + Len(sep), Len(s))
    IN  Cut(Find(s, sep))

\* s[i:] with a 1-based i
From(s, i) == SubSeq(s, i, Len(s))

\* s[:n] for a list (a slice never fails when the list is shorter)
Take(s, n) == SubSeq(s, 1, Min(n, Len(s)))

UPPER_CHARS == "ABCDEFGHIJKLMNOPQRSTUVWXYZ"
LOWER_CHARS == "abcdefghijklmnopqrstuvwxyz"
DIGIT_CHARS == "0123456789"
\* the characters str.strip() removes, of those a URL or a tag attribute holds
WHITESPACE == {" ", "\t", "\n", "\r"}

LowerChar(c) ==
    LET At(i) == IF i = 0 \/ c = "" THEN c ELSE SubSeq(LOWER_CHARS, i, i)
    IN  At(Find(UPPER_CHARS, c))

\* s.lower(), halving the string so that the recursion stays shallow
RECURSIVE Lower(_)
Lower(s) ==
    IF Len(s) <= 1 THEN LowerChar(s)
    ELSE Lower(SubSeq(s, 1, Len(s) \div 2)) \o Lower(SubSeq(s, Len(s) \div 2 + 1, Len(s)))

IsDigit(c) == Len(c) = 1 /\ Contains(DIGIT_CHARS, c)
IsAlpha(c) == Len(c) = 1 /\ (Contains(UPPER_CHARS, c) \/ Contains(LOWER_CHARS, c))

\* s.strip(chars) with chars a set of one-character strings
RECURSIVE LStripChars(_, _)
LStripChars(s, chars) ==
    IF s # "" /\ SubSeq(s, 1, 1) \in chars THEN LStripChars(From(s, 2), chars) ELSE s

RECURSIVE RStripChars(_, _)
RStripChars(s, chars) ==
    IF s # "" /\ SubSeq(s, Len(s), Len(s)) \in chars
    THEN RStripChars(SubSeq(s, 1, Len(s) - 1), chars)
    ELSE s

StripChars(s, chars) == RStripChars(LStripChars(s, chars), chars)

\* s.strip()
Strip(s) == StripChars(s, WHITESPACE)

\* s.replace(old, new)
RECURSIVE Replace(_, _, _)
Replace(s, old, new) ==
    LET At(i) == IF i = 0 THEN s
                 ELSE SubSeq(s, 1, i - 1) \o new \o Replace(From(s, i + Len(old)), old, new)
    IN  At(Find(s, old))

\* s.split(sep) as a list
RECURSIVE Split(_, _)
Split(s, sep) ==
    LET At(i) == IF i = 0 THEN <<s>>
                 ELSE <<SubSeq(s, 1, i - 1)>> \o Split(From(s, i + Len(sep)), sep)
    IN  At(Find(s, sep))

\* sep.join(parts)
RECURSIVE Join(_, _)
Join(parts, sep) ==
    IF parts = <<>> THEN ""
    ELSE IF Len(parts) = 1 THEN parts[1]
    ELSE parts[1] \o sep \o Join(Tail(parts), sep)

\* the length of the longest prefix of s made of digits (a greedy \d*)
DigitPrefixLen(s) ==
    Least({i \in 1..Len(s) : ~IsDigit(SubSeq(s, i, i))}, Len(s) + 1) - 1

\* ------------------------------------------------------------------------
\* urllib.parse
\* ------------------------------------------------------------------------

SCHEME_EXTRA_CHARS == "+-."

IsSchemeText(s) ==
    /\ s # ""
    /\ IsAlpha(SubSeq(s, 1, 1))
    /\ \A i \in 1..Len(s) :
          \E c \in {SubSeq(s, i, i)} :
              IsAlpha(c) \/ IsDigit(c) \/ Contains(SCHEME_EXTRA_CHARS, c)

\* the 1-based index of the first of "/", "?", "#" in s, Len(s) + 1 if none
NetlocEnd(s) ==
    Least({i \in 1..Len(s) : SubSeq(s, i, i) \in {"/", "?", "#"}}, Len(s) + 1)

\* what urlsplit does to its argument first: leading spaces and control
\* characters stripped, tabs and line breaks removed everywhere
UrlCleaned(raw) ==
    LET Cleaned(s) ==
            IF \E c \in {"\t", "\n", "\r"} : Contains(s, c)
            THEN Replace(Replace(Replace(s, "\t", ""), "\n", ""), "\r", "")
            ELSE s
    IN  Cleaned(LStripChars(raw, WHITESPACE))

\* urlparse(url): scheme, netloc, path, query, fragment.  The url is cut
\* from the left: the scheme at the first ":" when what precedes it is scheme
\* text, the netloc after "//" up to the first of "/", "?", "#", the
\* fragment at the first "#" of the rest, the query at the first "?" of what
\* precedes the fragment.
urlparse(raw) ==
    LET Parts(scheme, netloc, noFrag, fragment) ==
            [scheme   |-> scheme,
             netloc   |-> netloc,
             path     |-> BeforeFirst(noFrag, "?"),
             query    |-> AfterFirst(noFrag, "?"),
             fragment |-> fragment]
        AfterNetloc(scheme, netloc, rest) ==
            Parts(scheme, netloc, BeforeFirst(rest, "#"), AfterFirst(rest, "#"))
        CutNetloc(scheme, afterSl, netEnd) ==
            AfterNetloc(scheme, SubSeq(afterSl, 1, netEnd - 1), From(afterSl, netEnd))
        AfterScheme(scheme, rest) ==
            IF StartsWith(rest, "//")
            THEN CutNetloc(scheme, From(rest, 3), NetlocEnd(From(rest, 3)))
            ELSE AfterNetloc(scheme, "", rest)
        CutScheme(url, ci) ==
            IF ci > 1 /\ IsSchemeText(SubSeq(url, 1, ci - 1))
            THEN AfterScheme(Lower(SubSeq(url, 1, ci - 1)), From(url, ci + 1))
            ELSE AfterScheme("", url)
        Cleaned(url) == CutScheme(url, Find(url, ":"))
    IN  Cleaned(UrlCleaned(raw))

HEX_CHARS == "0123456789abcdef"
\* the printable ASCII characters, code points 32 to 95 and 97 to 126 in order
\* (code 96, the backquote, cannot be written in a TLA+ string)
ASCII_32_95 ==
    " !\"#$%&'()*+,-./0123456789:;<=>?@ABCDEFGHIJKLMNOPQRSTUVWXYZ[\\]^_"
ASCII_97_126 == "abcdefghijklmnopqrstuvwxyz{|}~"

AsciiChar(code) ==
    IF code <= 95 THEN SubSeq(ASCII_32_95, code - 31, code - 31)
    ELSE SubSeq(ASCII_97_126, code - 96, code - 96)

HexVal(c) == Find(HEX_CHARS, LowerChar(c)) - 1

\* urllib.parse.unquote on the printable ASCII range: %XX becomes the
\* character of that code; an escape outside the range (a byte of a
\* multi-byte character, a control character) is left as written
RECURSIVE unquote(_)
unquote(s) ==
    LET Escape(i, t, hi, lo) ==
            IF Len(t) >= 3 /\ hi >= 0 /\ lo >= 0
                  /\ 16 * hi + lo \in (32..95) \cup (97..126)
            THEN SubSeq(s, 1, i - 1) \o AsciiChar(16 * hi + lo) \o unquote(From(t, 4))
            ELSE SubSeq(s, 1, i) \o unquote(From(t, 2))
        At(i) ==
            IF i = 0 THEN s
            ELSE Escape(i, From(s, i), HexVal(SubSeq(s, i + 1, i + 1)),
                        HexVal(SubSeq(s, i + 2, i + 2)))
    IN  At(Find(s, "%"))

\* the (name, value) pairs parse_qs keeps, in order: fields split on "&",
\* a field without "=" or with an empty value dropped, "+" read as a space
\* and percent escapes decoded
RECURSIVE parse_qsl_fields(_)
parse_qsl_fields(fields) ==
    IF fields = <<>> THEN <<>>
    ELSE LET Field(f, value) ==
                 IF ~Contains(f, "=") \/ value = "" THEN <<>>
                 ELSE <<[name  |-> unquote(Replace(BeforeFirst(f, "="), "+", " ")),
                         value |-> unquote(Replace(value, "+", " "))]>>
         IN  Field(Head(fields), AfterFirst(Head(fields), "="))
                \o parse_qsl_fields(Tail(fields))

\* the pairs of parse_qs(query), in the order of the query string
parse_qsl(query) == IF query = "" THEN <<>> ELSE parse_qsl_fields(Split(query, "&"))

\* `key in query`, for pairs = the pairs of query = parse_qs(...)
QueryHas(pairs, key) == \E i \in 1..Len(pairs) : pairs[i].name = key

\* query[key][0]: the first value kept for key
QueryFirst(pairs, key) ==
    pairs[Least({i \in 1..Len(pairs) : pairs[i].name = key}, 0)].value

\* ------------------------------------------------------------------------
\* Program constants
\* ------------------------------------------------------------------------

IMAGE_EXTS == {"jpg", "jpeg", "png", "webp", "avif", "gif"}
VIDEO_EXTS == {"mp4", "m3u8", "mov", "webm"}
STATIC_ASSET_EXTS == {"js", "css", "map", "json", "html", "htm", "txt", "xml"}
VIDEO_HINTS == {"video", "play", "stream", "hls", "goods_video", "video_url"}
IMAGE_HINTS == {"image", "img", "cover", "thumb", "pic"}
BLOCKED_URL_KEYWORDS ==
    {"down_download", "android_browser_download", "ios_fast_download",
     "need_popover=true", "itunes.apple.com", "apps.apple.com"}

\* the path tokens of classify_media_urls
VIDEO_PATH_TOKENS == {"/video", "video-", "/play", "m3u8", "mp4"}
IMAGE_PATH_TOKENS == {"/image", "/img", "cover", "thumb", "pic"}
\* the path tokens and keywords of filter_valid_video_urls
VALID_VIDEO_PATH_TOKENS == {"/video", "video-", "/play"}
VALID_VIDEO_KEYWORDS == {"m3u8", "mp4", "video"}

MAX_IMAGES == 6
MAX_VIDEOS == 3
MAX_CANDIDATES == 12
MIN_ID_DIGITS == 5
VIDEO_SCORE == 100
IMAGE_SCORE == 10

\* stand-in for the placeholder title (the title of the mall's home page)
PLACEHOLDER_TITLE == "<PDD mall>"
\* stand-in for the prefix of the aggregated static failure
STATIC_ALL_FAILED == "all static fetches failed: "
CANONICAL_PREFIX == "https://mobile.yangkeduo.com/goods.html?goods_id="
GOODS_ID_KEYS == <<"goods_id", "goodsId", "gid">>
GOODS_ID_PATTERNS == <<"goods_id=", "/goods/", "goods/">>

\* ------------------------------------------------------------------------
\* URL canonicaliser
\* ------------------------------------------------------------------------

is_blocked_jump_url(url) ==
    LET Blocked(low) == \E k \in BLOCKED_URL_KEYWORDS : Contains(low, k)
    IN  Blocked(Lower(url))

\* re.search(prefix + r"(\d{5,})", s).group(1): the digits of the leftmost
\* place where prefix is followed by at least MIN_ID_DIGITS digits, taken
\* greedily; "" when there is no match
CapturedDigits(s, prefix) ==
    LET Digits(d) == IF d = 0 THEN "" ELSE SubSeq(s, d, d + DigitPrefixLen(From(s, d)) - 1)
        Match(i)  == Digits(IF i = 0 THEN 0 ELSE i + Len(prefix))
    IN  Match(Least({i \in 1..Len(s) :
                        /\ StartsWith(From(s, i), prefix)
                        /\ DigitPrefixLen(From(s, i + Len(prefix))) >= MIN_ID_DIGITS}, 0))

\* the id found under the first of `keys` whose first query value holds one
RECURSIVE GoodsIdFromQuery(_, _)
GoodsIdFromQuery(pairs, keys) ==
    IF keys = <<>> THEN ""
    ELSE LET Or(found) == IF found # "" THEN found ELSE GoodsIdFromQuery(pairs, Tail(keys))
         IN  Or(IF QueryHas(pairs, Head(keys))
                THEN CapturedDigits(QueryFirst(pairs, Head(keys)), "")
                ELSE "")

\* the id captured by the first of `patterns` that matches the whole URL
RECURSIVE GoodsIdFromPatterns(_, _)
GoodsIdFromPatterns(url, patterns) ==
    IF patterns = <<>> THEN ""
    ELSE LET Or(found) == IF found # "" THEN found
                          ELSE GoodsIdFromPatterns(url, Tail(patterns))
         IN  Or(CapturedDigits(url, Head(patterns)))

extract_goods_id(url) ==
    LET Or(byQuery) == IF byQuery # "" THEN byQuery
                       ELSE GoodsIdFromPatterns(url, GOODS_ID_PATTERNS)
    IN  Or(GoodsIdFromQuery(parse_qsl(urlparse(url).query), GOODS_ID_KEYS))

\* a faulty variant of canonicalize_pdd_goods_url: the id under a query key
\* extract_goods_id does not read
canonicalize_under_id_key(url) ==
    LET Canonical(goods_id) ==
            IF goods_id = "" THEN url
            ELSE "https://mobile.yangkeduo.com/goods.html?id=" \o goods_id
    IN  Canonical(extract_goods_id(url))

canonicalize_pdd_goods_url(url) ==
    LET Canonical(goods_id) == IF goods_id = "" THEN url ELSE CANONICAL_PREFIX \o goods_id
    IN  Canonical(extract_goods_id(url))

\* ------------------------------------------------------------------------
\* Media classifier
\* ------------------------------------------------------------------------

\* PATTERN.search(low) for a pattern \.(?:e1|e2|...)(?:$|\?)
ExtSearch(low, exts) ==
    \E e \in exts : EndsWith(low, "." \o e) \/ Contains(low, "." \o e \o "?")

\* any(h in s for h in words)
AnyIn(s, words) == \E w \in words : Contains(s, w)

RECURSIVE uniq_by_path_loop(_, _, _)
uniq_by_path_loop(items, seen, out) ==
    IF items = <<>> THEN out
    ELSE LET Step(item, normalized) ==
                 IF normalized \notin seen
                 THEN uniq_by_path_loop(Tail(items), seen \cup {normalized}, Append(out, item))
                 ELSE uniq_by_path_loop(Tail(items), seen, out)
         IN  Step(Head(items), BeforeFirst(Head(items), "?"))

\* a faulty variant of uniq_by_path: whole items are compared
uniq_by_whole_item(items) ==
    LET Kept(tagged) == [k \in 1..Len(tagged) |-> tagged[k].item]
    IN  Kept(SelectSeq([i \in 1..Len(items) |-> [at |-> i, item |-> items[i]]],
                       LAMBDA e : \A j \in 1..(e.at - 1) : items[j] # e.item))

uniq_by_path(items) == uniq_by_path_loop(items, {}, <<>>)

normalize_candidate_url(value) ==
    LET Normal(v) == IF StartsWith(v, "//") THEN "https:" \o v ELSE v
    IN  Normal(Strip(value))

\* one iteration of classify_media_urls' loop: "image", "video" or "none"
\* for the normalised url
classify_url(url) ==
    LET Class(low, path) ==
            IF ~StartsWith(url, "http") THEN "none"
            ELSE IF ExtSearch(low, STATIC_ASSET_EXTS) THEN "none"
            ELSE IF ExtSearch(low, IMAGE_EXTS) THEN "image"
            ELSE IF ExtSearch(low, VIDEO_EXTS) THEN "video"
            ELSE IF AnyIn(low, VIDEO_HINTS) /\ AnyIn(path, VIDEO_PATH_TOKENS) THEN "video"
            ELSE IF AnyIn(low, IMAGE_HINTS) /\ AnyIn(path, IMAGE_PATH_TOKENS) THEN "image"
            ELSE "none"
    IN  Class(Lower(url), Lower(urlparse(url).path))

\* the members of urls, in order, whose class is in classes
RECURSIVE OfClass(_, _)
OfClass(classes, wanted) ==
    IF classes = <<>> THEN <<>>
    ELSE (IF Head(classes).class = wanted THEN <<Head(classes).url>> ELSE <<>>)
            \o OfClass(Tail(classes), wanted)

\* classify_media_urls(candidates): (images, videos)
classify_media_urls(candidates) ==
    LET Classified(classes) ==
            [images |-> uniq_by_path(OfClass(classes, "image")),
             videos |-> uniq_by_path(OfClass(classes, "video"))]
        Normalized(urls) ==
            Classified([i \in 1..Len(urls) |-> [url |-> urls[i], class |-> classify_url(urls[i])]])
    IN  Normalized([i \in 1..Len(candidates) |->
                       normalize_candidate_url(Strip(candidates[i]))])

\* the characters URL_PATTERN's [^\s"'<>\\] excludes
URL_STOP_CHARS == WHITESPACE \cup {"\"", "'", "<", ">", "\\"}

\* the length of the longest prefix of s that [^\s"'<>\\]* matches
UrlBodyLen(s) ==
    Least({i \in 1..Len(s) : SubSeq(s, i, i) \in URL_STOP_CHARS}, Len(s) + 1) - 1

\* URL_PATTERN.findall(text): https?://[^\s"'<>\\]+, case-insensitive
RECURSIVE url_findall(_)
url_findall(text) ==
    LET SchemeLen(t) == IF StartsWith(t, "https://") THEN 8
                        ELSE IF StartsWith(t, "http://") THEN 7 ELSE 0
        Cut(i, n) == <<SubSeq(text, i, i + n - 1)>> \o url_findall(From(text, i + n))
        Match(i, p) == IF i = 0 THEN <<>> ELSE Cut(i, p + UrlBodyLen(From(text, i + p)))
        First(low, i) == Match(i, SchemeLen(From(low, i)))
        Lowered(low) ==
            First(low, Least({i \in 1..Len(text) :
                                 \E p \in {SchemeLen(From(low, i))} :
                                     p > 0 /\ UrlBodyLen(From(text, i + p)) > 0},
                             0))
    IN  Lowered(Lower(text))

extract_urls_from_text(text) ==
    url_findall(Replace(Replace(text, "\\u002F", "/"), "\\/", "/"))

\* filter_valid_video_urls' test of one normalised url
is_valid_video_url(url) ==
    LET Valid(low, path) ==
            /\ StartsWith(url, "http")
            /\ ~ExtSearch(low, STATIC_ASSET_EXTS)
            /\ \/ ExtSearch(low, VIDEO_EXTS)
               \/ AnyIn(path, VALID_VIDEO_PATH_TOKENS) /\ AnyIn(low, VALID_VIDEO_KEYWORDS)
    IN  Valid(Lower(url), Lower(urlparse(url).path))

filter_valid_video_urls(urls) ==
    uniq_by_path(SelectSeq([i \in 1..Len(urls) |-> normalize_candidate_url(Strip(urls[i]))],
                           is_valid_video_url))

\* images.extend(a), videos.extend(b) for two (images, videos) pairs
MediaConcat(a, b) == [images |-> a.images \o b.images, videos |-> a.videos \o b.videos]

\* (uniq_by_path(images), uniq_by_path(videos))
MediaUniq(m) == [images |-> uniq_by_path(m.images), videos |-> uniq_by_path(m.videos)]

\* classify_by_key(path, value) of extract_media_from_json_obj: what one
\* string adds to (images, videos)
classify_by_key(path, value) ==
    LET ByKey(low_path, url) ==
            IF ~StartsWith(url, "http") THEN [images |-> <<>>, videos |-> <<>>]
            ELSE IF AnyIn(low_path, VIDEO_HINTS) THEN [images |-> <<>>, videos |-> <<url>>]
            ELSE IF AnyIn(low_path, IMAGE_HINTS) THEN [images |-> <<url>>, videos |-> <<>>]
            ELSE classify_media_urls(<<url>>)
    IN  ByKey(Lower(path), normalize_candidate_url(value))

\* the string leaf of extract_media_from_json_obj: the string itself, then
\* every URL found in it, each through classify_by_key
RECURSIVE classify_all_by_key(_, _)
classify_all_by_key(path, values) ==
    IF values = <<>> THEN [images |-> <<>>, videos |-> <<>>]
    ELSE MediaConcat(classify_by_key(path, Head(values)),
                     classify_all_by_key(path, Tail(values)))

json_leaf_media(leaf) ==
    MediaUniq(classify_all_by_key(leaf.path,
                                  <<leaf.value>> \o extract_urls_from_text(leaf.value)))

\* extract_media_from_json_obj(obj) for a payload given by its string leaves
\* in traversal order, each with the key path the recursion builds for it
\* (".key" per mapping, "[index]" per list).  Every level of the recursion
\* returns uniq_by_path of what its children returned, in order.
RECURSIVE json_leaves_media(_)
json_leaves_media(leaves) ==
    IF leaves = <<>> THEN [images |-> <<>>, videos |-> <<>>]
    ELSE MediaConcat(json_leaf_media(Head(leaves)), json_leaves_media(Tail(leaves)))

extract_media_from_json_obj(leaves) == MediaUniq(json_leaves_media(leaves))


\* ------------------------------------------------------------------------
\* Static and dynamic extraction
\* ------------------------------------------------------------------------

\* A parsed document (the BeautifulSoup tree, or the browser's page) is the
\* record of what extract_from_html reads from it, in document order:
\*   html_length  len(html)
\*   metas        the <meta> tags: attr ("property" or "name"), key, content
\*   title_text   soup.title.text, "" when there is no <title>
\*   imgs         the <img> tags: src, data_src, data_original ("" if absent)
\*   videos       the <video> tags: src and the src of each nested <source>
\*   script_text  the text of the <script> tags, joined by spaces

\* dict.get(key, default)
Get(d, key, default) == IF key \in DOMAIN d THEN d[key] ELSE default

\* d[key] = value
Put(d, key, value) == [k \in DOMAIN d \cup {key} |-> IF k = key THEN value ELSE d[k]]

\* the order-preserving exact dedup at the end of meta_values
RECURSIVE uniq_loop(_, _, _)
uniq_loop(values, seen, out) ==
    IF values = <<>> THEN out
    ELSE IF Head(values) \notin seen
         THEN uniq_loop(Tail(values), seen \cup {Head(values)}, Append(out, Head(values)))
         ELSE uniq_loop(Tail(values), seen, out)

\* the stripped, non-empty contents of the tags carrying attr = key
MetaContents(metas, attr, key) ==
    LET Contents(tags) ==
            SelectSeq([i \in 1..Len(tags) |-> Strip(tags[i].content)], LAMBDA c : c # "")
    IN  Contents(SelectSeq(metas, LAMBDA t : t.attr = attr /\ t.key = key))

RECURSIVE meta_values_loop(_, _)
meta_values_loop(metas, keys) ==
    IF keys = <<>> THEN <<>>
    ELSE MetaContents(metas, "property", Head(keys))
            \o MetaContents(metas, "name", Head(keys))
            \o meta_values_loop(metas, Tail(keys))

meta_values(metas, keys) == uniq_loop(meta_values_loop(metas, keys), {}, <<>>)

\* a or b or c, for strings
FirstTruthy(a, b, c) == IF a # "" THEN a ELSE IF b # "" THEN b ELSE c

\* the src values of the loops of extract_from_html that pass startswith("http")
HttpOnly(srcs) ==
    SelectSeq([i \in 1..Len(srcs) |-> normalize_candidate_url(Strip(srcs[i]))],
              LAMBDA u : StartsWith(u, "http"))

RECURSIVE VideoTagSrcs(_)
VideoTagSrcs(videos) ==
    IF videos = <<>> THEN <<>>
    ELSE <<Head(videos).src>> \o Head(videos).sources \o VideoTagSrcs(Tail(videos))

extract_from_html(soup) ==
    LET Title(title_candidates) ==
            IF title_candidates # <<>> THEN title_candidates[1]
            ELSE IF soup.title_text # "" THEN Strip(soup.title_text)
            ELSE ""
        img_srcs ==
            [i \in 1..Len(soup.imgs) |->
                FirstTruthy(soup.imgs[i].src, soup.imgs[i].data_src, soup.imgs[i].data_original)]
        Extracted(meta_images, meta_videos, classified) ==
            [title  |-> Title(meta_values(soup.metas, <<"og:title", "twitter:title">>)),
             images |-> uniq_by_path(meta_images \o HttpOnly(img_srcs) \o classified.images),
             videos |-> uniq_by_path(meta_videos \o HttpOnly(VideoTagSrcs(soup.videos))
                                        \o classified.videos)]
    IN  Extracted(meta_values(soup.metas, <<"og:image", "twitter:image">>),
                  meta_values(soup.metas, <<"og:video", "og:video:url", "twitter:player">>),
                  classify_media_urls(extract_urls_from_text(soup.script_text)))

\* parse_static(source_url) once fetch_html has returned (soup, final_url)
parse_static(source_url, soup, final_url) ==
    LET Info(title, all_images, all_videos) ==
            [source_url |-> source_url,
             final_url  |-> final_url,
             title      |-> title,
             images     |-> Take(all_images, MAX_IMAGES),
             videos     |-> Take(all_videos, MAX_VIDEOS),
             raw        |-> [html_length      |-> soup.html_length,
                             method           |-> "static",
                             video_candidates |-> Take(all_videos, MAX_CANDIDATES),
                             image_candidates |-> Take(all_images, MAX_CANDIDATES)]]
        Extracted(ex) == Info(ex.title, uniq_by_path(ex.images), uniq_by_path(ex.videos))
    IN  Extracted(extract_from_html(soup))

JSON_URLS_LIMIT == 80
JSON_BODY_KEYWORDS == {"video", "image", "goods", "mp4", "m3u8"}

\* on_request: what one outgoing request adds to network_urls
on_request(network_urls, request_url) ==
    IF StartsWith(request_url, "http") THEN Append(network_urls, request_url)
    ELSE network_urls

\* on_response: the listener's effect on (response_urls, json_urls,
\* json_images, json_videos) for one response.  A response is
\*   url, resource_type, content_type   as the browser reports them
\*   body_ok, body                      whether response.text() returns, and what
\*   json_ok, leaves                    whether json.loads(body) returns, and
\*                                      the string leaves of the payload
on_response(acc, response) ==
    LET Parsed(acc2, media) ==
            [acc2 EXCEPT !.json_images = @ \o media.images,
                         !.json_videos = @ \o media.videos]
        Body(acc2) ==
            IF ~response.json_ok THEN acc2
            ELSE Parsed(acc2, extract_media_from_json_obj(response.leaves))
        Recorded(acc1, body_lower) ==
            IF /\ response.resource_type \notin {"xhr", "fetch"}
               /\ ~Contains(Lower(response.content_type), "json")
            THEN acc1
            ELSE IF Len(acc.json_urls) >= JSON_URLS_LIMIT THEN acc1
            ELSE IF ~response.body_ok THEN acc1
            ELSE IF ~Contains(response.body, "http") THEN acc1
            ELSE IF ~AnyIn(body_lower, JSON_BODY_KEYWORDS) THEN acc1
            ELSE Body([acc1 EXCEPT !.json_urls = @ \o extract_urls_from_text(response.body)])
    IN  Recorded(IF StartsWith(response.url, "http")
                 THEN [acc EXCEPT !.response_urls = Append(@, response.url)]
                 ELSE acc,
                 Lower(response.body))

RECURSIVE on_requests(_, _)
on_requests(network_urls, requests) ==
    IF requests = <<>> THEN network_urls
    ELSE on_requests(on_request(network_urls, Head(requests)), Tail(requests))

RECURSIVE on_responses(_, _)
on_responses(acc, responses) ==
    IF responses = <<>> THEN acc
    ELSE on_responses(on_response(acc, Head(responses)), Tail(responses))

NoResponses ==
    [response_urls |-> <<>>, json_urls |-> <<>>, json_images |-> <<>>, json_videos |-> <<>>]

\* parse_dynamic_with_playwright(source_url) once the browser part has run
\* to its end without raising.  A capture is what the browser delivered:
\*   final_url    page.url
\*   soup         page.content(), parsed
\*   page_assets  the result of page.evaluate: imgs, videos, links
\*   requests     the URLs of the requests seen by on_request, in order
\*   responses    the responses seen by on_response, in order
parse_dynamic_result(source_url, capture) ==
    LET Info(title, all_images, all_videos, all_network, json_videos) ==
            [source_url |-> source_url,
             final_url  |-> capture.final_url,
             title      |-> title,
             images     |-> Take(all_images, MAX_IMAGES),
             videos     |-> Take(all_videos, MAX_VIDEOS),
             raw        |-> [html_length           |-> capture.soup.html_length,
                             method                |-> "playwright",
                             network_urls_count    |-> Len(uniq_by_path(all_network)),
                             json_video_candidates |-> Len(uniq_by_path(json_videos)),
                             video_candidates      |-> Take(all_videos, MAX_CANDIDATES),
                             image_candidates      |-> Take(all_images, MAX_CANDIDATES)]]
        Collected(ex, seen, all_network, net) ==
            Info(ex.title,
                 uniq_by_path(ex.images \o capture.page_assets.imgs
                                 \o seen.json_images \o net.images),
                 uniq_by_path(ex.videos \o capture.page_assets.videos
                                 \o capture.page_assets.links
                                 \o seen.json_videos \o net.videos),
                 all_network,
                 seen.json_videos)
        Network(ex, seen, all_network) ==
            Collected(ex, seen, all_network, classify_media_urls(all_network))
        Listened(ex, network_urls, seen) ==
            Network(ex, seen, network_urls \o seen.response_urls \o seen.json_urls)
    IN  Listened(extract_from_html(capture.soup),
                 on_requests(<<>>, capture.requests),
                 on_responses(NoResponses, capture.responses))

\* ------------------------------------------------------------------------
\* Fusion and scoring
\* ------------------------------------------------------------------------

\* a faulty variant of score_info: the bonus for any non-empty title
score_info_any_title(info) ==
    Len(info.videos) * VIDEO_SCORE + Len(info.images) * IMAGE_SCORE
        + (IF info.title # "" THEN 1 ELSE 0)

\* a faulty variant of score_info: a video weighs what an image weighs
score_info_light_video(info) ==
    LET title_bonus == IF info.title # "" /\ info.title # PLACEHOLDER_TITLE THEN 1 ELSE 0
    IN  Len(info.videos) * IMAGE_SCORE + Len(info.images) * IMAGE_SCORE + title_bonus

score_info(info) ==
    LET title_bonus == IF info.title # "" /\ info.title # PLACEHOLDER_TITLE THEN 1 ELSE 0
    IN  Len(info.videos) * VIDEO_SCORE + Len(info.images) * IMAGE_SCORE + title_bonus

\* a faulty variant of merge_info: the incoming entries come first
merge_info_incoming_first(base, incoming, source_label) ==
    [source_url |-> base.source_url,
     final_url  |-> IF incoming.final_url # "" THEN incoming.final_url ELSE base.final_url,
     title      |-> IF incoming.title # "" /\ (base.title = "" \/ base.title = PLACEHOLDER_TITLE)
                    THEN incoming.title
                    ELSE base.title,
     images     |-> Take(uniq_by_path(incoming.images \o base.images), MAX_IMAGES),
     videos     |-> Take(uniq_by_path(incoming.videos \o base.videos), MAX_VIDEOS),
     raw        |-> Put(base.raw, "merge_from",
                        Append(Get(base.raw, "merge_from", <<>>), source_label))]

\* a faulty variant of merge_info: the merged lists are not cut
merge_info_uncapped(base, incoming, source_label) ==
    [source_url |-> base.source_url,
     final_url  |-> IF incoming.final_url # "" THEN incoming.final_url ELSE base.final_url,
     title      |-> IF incoming.title # "" /\ (base.title = "" \/ base.title = PLACEHOLDER_TITLE)
                    THEN incoming.title
                    ELSE base.title,
     images     |-> uniq_by_path(base.images \o incoming.images),
     videos     |-> uniq_by_path(base.videos \o incoming.videos),
     raw        |-> Put(base.raw, "merge_from",
                        Append(Get(base.raw, "merge_from", <<>>), source_label))]

\* a faulty variant of merge_info: any non-empty incoming title wins
merge_info_overwrite(base, incoming, source_label) ==
    [source_url |-> base.source_url,
     final_url  |-> IF incoming.final_url # "" THEN incoming.final_url ELSE base.final_url,
     title      |-> IF incoming.title # "" THEN incoming.title ELSE base.title,
     images     |-> Take(uniq_by_path(base.images \o incoming.images), MAX_IMAGES),
     videos     |-> Take(uniq_by_path(base.videos \o incoming.videos), MAX_VIDEOS),
     raw        |-> Put(base.raw, "merge_from",
                        Append(Get(base.raw, "merge_from", <<>>), source_label))]

\* merge_info(base, incoming, source_label): base after the call
merge_info(base, incoming, source_label) ==
    [source_url |-> base.source_url,
     final_url  |-> IF incoming.final_url # "" THEN incoming.final_url ELSE base.final_url,
     title      |-> IF incoming.title # "" /\ (base.title = "" \/ base.title = PLACEHOLDER_TITLE)
                    THEN incoming.title
                    ELSE base.title,
     images     |-> Take(uniq_by_path(base.images \o incoming.images), MAX_IMAGES),
     videos     |-> Take(uniq_by_path(base.videos \o incoming.videos), MAX_VIDEOS),
     raw        |->
        Put(Put(Put(base.raw, "video_candidates",
                    Take(uniq_by_path(Get(base.raw, "video_candidates", <<>>)
                                         \o Get(incoming.raw, "video_candidates", <<>>)),
                         MAX_CANDIDATES)),
                "image_candidates",
                Take(uniq_by_path(Get(base.raw, "image_candidates", <<>>)
                                     \o Get(incoming.raw, "image_candidates", <<>>)),
                     MAX_CANDIDATES)),
            "merge_from",
            Append(Get(base.raw, "merge_from", <<>>), source_label))]

\* max(static_infos, key=score_info): the first of the highest-scoring
best_static(static_infos) ==
    static_infos[CHOOSE i \in 1..Len(static_infos) :
                    /\ \A j \in 1..Len(static_infos) :
                          score_info(static_infos[j]) <= score_info(static_infos[i])
                    /\ \A j \in 1..(i - 1) :
                          score_info(static_infos[j]) < score_info(static_infos[i])]


\* ------------------------------------------------------------------------
\* The environment: what the network and the browser can deliver
\* ------------------------------------------------------------------------

\* how many <img> and <video> tags (or requests) the richest page carries
NumPageImages == 7
NumPageVideos == 4

\* str(i) for 0 <= i <= 9
Digit(i) == SubSeq(DIGIT_CHARS, i + 1, i + 1)

ImgUrl(i) == "https://img.pdd.cn/g/" \o Digit(i) \o ".jpg"
VidUrl(i) == "https://vid.pdd.cn/v/" \o Digit(i) \o ".mp4"

Img(src) == [src |-> src, data_src |-> "", data_original |-> ""]
Meta(attr, key, content) == [attr |-> attr, key |-> key, content |-> content]

BlankSoup ==
    [html_length |-> 0, metas |-> <<>>, title_text |-> "", imgs |-> <<>>,
     videos |-> <<>>, script_text |-> ""]

\* the mall's home page: the placeholder title and one banner
MallSoup ==
    [BlankSoup EXCEPT !.html_length = 900,
                      !.title_text = " " \o PLACEHOLDER_TITLE \o "\n",
                      !.imgs = <<[src |-> "", data_src |-> "//img.pdd.cn/banner.png",
                                  data_original |-> ""]>>]

\* a title and one image, no video
OneImageSoup ==
    [BlankSoup EXCEPT !.html_length = 400,
                      !.metas = <<Meta("property", "og:title", "Test Product")>>,
                      !.imgs = <<Img("https://x/a.jpg")>>]

\* more images and videos than the caps, with a repeated path among them
GallerySoup ==
    [BlankSoup EXCEPT !.html_length = 5000,
                      !.metas = <<Meta("name", "twitter:title", "Gallery")>>,
                      !.imgs = [i \in 1..NumPageImages |-> Img(ImgUrl(i))]
                                  \o <<Img(ImgUrl(1) \o "?w=200")>>,
                      !.videos = [i \in 1..NumPageVideos |->
                                     [src |-> VidUrl(i), sources |-> <<>>]]]

\* a title, an image and two player pages named by meta tags
EmbedSoup ==
    [BlankSoup EXCEPT !.html_length = 700,
                      !.metas = <<Meta("property", "og:title", "Embed"),
                                  Meta("property", "og:image", ImgUrl(1)),
                                  Meta("property", "og:video", "https://player.pdd.cn/embed/77"),
                                  Meta("name", "twitter:player", "/player/77")>>]

\* no title; the media are URLs inside a script
ScriptSoup ==
    [BlankSoup EXCEPT !.html_length = 1500,
                      !.script_text =
                          "var v=\"https:\\/\\/vid.pdd.cn\\/play\\/9\";"
                             \o " var s=\"https://vid.pdd.cn/v/1.mp4?sign=ab\";"
                             \o " var i=\"https://img.pdd.cn/g/2.jpg\";"]

BLOCKED_REDIRECT == "https://mobile.yangkeduo.com/ios_fast_download.html?need_popover=true"
LOGIN_REDIRECT == "https://mobile.yangkeduo.com/login.html?from=goods"

\* what fetch_html can return for a URL: the document, and the URL the
\* redirects ended at ("" for the requested URL itself)
StaticFetches ==
    {[soup |-> BlankSoup,    redirect |-> ""],
     [soup |-> MallSoup,     redirect |-> BLOCKED_REDIRECT],
     [soup |-> MallSoup,     redirect |-> LOGIN_REDIRECT],
     [soup |-> OneImageSoup, redirect |-> ""],
     [soup |-> GallerySoup,  redirect |-> ""],
     [soup |-> EmbedSoup,    redirect |-> ""],
     [soup |-> ScriptSoup,   redirect |-> ""],
     [soup |-> ScriptSoup,   redirect |-> LOGIN_REDIRECT]}

\* str(exc) of a failed fetch_html
StaticFailures == {"HTTPSConnectionPool: Read timed out.", "403 Client Error: Forbidden"}

\* str(exc) of a failed parse_dynamic_with_playwright
DynamicFailures == {"Timeout 45000ms exceeded."}

NoAssets == [imgs |-> <<>>, videos |-> <<>>, links |-> <<>>]

BlankCapture ==
    [redirect |-> "", soup |-> BlankSoup, page_assets |-> NoAssets,
     requests |-> <<>>, responses |-> <<>>]

\* the browser ended on the login page
LoginCapture ==
    [BlankCapture EXCEPT !.redirect = LOGIN_REDIRECT,
                         !.soup = [BlankSoup EXCEPT !.html_length = 300,
                                                    !.title_text = "Login"]]

\* the rendered product page: a title, two images and a playable video
VideoCapture ==
    [BlankCapture EXCEPT !.soup = [BlankSoup EXCEPT !.html_length = 9000,
                                                    !.metas = <<Meta("property", "og:title",
                                                                     "Dynamic Product")>>],
                         !.page_assets = [imgs   |-> <<ImgUrl(1), ImgUrl(2)>>,
                                          videos |-> <<VidUrl(1)>>,
                                          links  |-> <<>>]]

\* the mall page again, with an API response whose keys name a video cover
JsonCapture ==
    [BlankCapture EXCEPT
        !.soup = [BlankSoup EXCEPT !.html_length = 2000, !.title_text = PLACEHOLDER_TITLE],
        !.responses =
            <<[url |-> "https://api.pdd.cn/goods/detail", resource_type |-> "xhr",
               content_type |-> "application/json", body_ok |-> TRUE,
               body |-> "{\"goods\":{\"video_cover\":\"https:\\/\\/img.pdd.cn\\/g\\/3.jpg\",\"thumb_url\":\"//img.pdd.cn/g/4.jpg\"}}",
               json_ok |-> TRUE,
               leaves |-> <<[path |-> "goods.video_cover", value |-> "https://img.pdd.cn/g/3.jpg"],
                            [path |-> "goods.thumb_url", value |-> "//img.pdd.cn/g/4.jpg"]>>]>>]

\* no document to speak of; the media show up as network requests
TrafficCapture ==
    [BlankCapture EXCEPT
        !.requests = [i \in 1..NumPageImages |-> ImgUrl(NumPageImages + 1 - i)]
                        \o [i \in 1..NumPageVideos |-> VidUrl(NumPageVideos + 1 - i)]
                        \o <<"https://static.pdd.cn/svideo_index.js", "data:image/png;base64,AAAA">>]

DynamicCaptures == {BlankCapture, LoginCapture, VideoCapture, JsonCapture, TrafficCapture}

\* the URLs parse_product_info is called with
SourceUrls ==
    {"https://mobile.yangkeduo.com/goods.html?goods_id=123456789",
     "https://mobile.yangkeduo.com/share.html?gid=987654321&needs_login=1",
     "https://mobile.yangkeduo.com/xyz.html?goods_id=42",
     "https://mobile.yangkeduo.com/ios_fast_download.html?goods_id=123456789"}

\* ------------------------------------------------------------------------
\* parse_product_info as a state machine
\* ------------------------------------------------------------------------

VARIABLES
    pc,                   \* where parse_product_info is
    source_url,           \* its argument
    canonical_url,
    candidate_urls,
    static_infos,
    static_errors,
    best,                 \* the seed
    info,                 \* the running result; the return value at "done"
    dynamic_attempt_urls,
    dynamic_info,         \* the result of the latest successful dynamic attempt
    dynamic_logs,
    error,                \* the message of the RuntimeError raised, at "raised"
    calls,                \* every extraction call made so far, in order
    probe                 \* the function under test of the pure-function specifications

vars ==
    <<pc, source_url, canonical_url, candidate_urls, static_infos, static_errors, best,
      info, dynamic_attempt_urls, dynamic_info, dynamic_logs, error, calls, probe>>

ppi_vars ==
    <<pc, source_url, canonical_url, candidate_urls, static_infos, static_errors, best,
      info, dynamic_attempt_urls, dynamic_info, dynamic_logs, error, calls>>

\* ProductInfo(source_url=source_url)
ProductInfo(url) ==
    [source_url |-> url, final_url |-> "", title |-> "", images |-> <<>>,
     videos |-> <<>>, raw |-> [method |-> ""]]

NoProbe == [fn |-> "none"]

PpiIdle ==
    /\ pc = "idle"
    /\ source_url = ""
    /\ canonical_url = ""
    /\ candidate_urls = <<>>
    /\ static_infos = <<>>
    /\ static_errors = <<>>
    /\ best = ProductInfo("")
    /\ info = ProductInfo("")
    /\ dynamic_attempt_urls = <<>>
    /\ dynamic_info = ProductInfo("")
    /\ dynamic_logs = <<>>
    /\ error = ""
    /\ calls = <<>>

Init ==
    /\ pc = "start"
    /\ source_url \in SourceUrls
    /\ canonical_url = ""
    /\ candidate_urls = <<>>
    /\ static_infos = <<>>
    /\ static_errors = <<>>
    /\ best = ProductInfo("")
    /\ info = ProductInfo("")
    /\ dynamic_attempt_urls = <<>>
    /\ dynamic_info = ProductInfo("")
    /\ dynamic_logs = <<>>
    /\ error = ""
    /\ calls = <<>>
    /\ probe = NoProbe

StaticCalls == SelectSeq(calls, LAMBDA c : c.kind = "static")
DynamicCalls == SelectSeq(calls, LAMBDA c : c.kind = "dynamic")

\* lines 843-849
Begin ==
    /\ pc = "start"
    /\ canonical_url' = canonicalize_pdd_goods_url(source_url)
    /\ candidate_urls' = IF canonical_url' # source_url
                         THEN <<source_url, canonical_url'>>
                         ELSE <<source_url>>
    /\ pc' = "static"
    /\ UNCHANGED <<source_url, static_infos, static_errors, best, info,
                   dynamic_attempt_urls, dynamic_info, dynamic_logs, error, calls, probe>>

\* the candidate the static loop is at
StaticUrl == candidate_urls[Len(StaticCalls) + 1]

\* lines 850-853: parse_static(u) returns
StaticOk ==
    /\ pc = "static"
    /\ Len(StaticCalls) < Len(candidate_urls)
    /\ \E f \in StaticFetches :
          LET u         == StaticUrl
              final_url == IF f.redirect = "" THEN u ELSE f.redirect
          IN  /\ static_infos' = Append(static_infos, parse_static(u, f.soup, final_url))
              /\ calls' = Append(calls, [kind |-> "static", url |-> u, ok |-> TRUE,
                                         reason |-> ""])
    /\ UNCHANGED <<pc, source_url, canonical_url, candidate_urls, static_errors, best, info,
                   dynamic_attempt_urls, dynamic_info, dynamic_logs, error, probe>>

\* a faulty variant of StaticFail: the failure is not recorded
StaticFailUnrecorded ==
    /\ pc = "static"
    /\ Len(StaticCalls) < Len(candidate_urls)
    /\ \E exc \in StaticFailures :
          calls' = Append(calls, [kind |-> "static", url |-> StaticUrl, ok |-> FALSE,
                                  reason |-> exc])
    /\ UNCHANGED <<pc, source_url, canonical_url, candidate_urls, static_infos, static_errors,
                   best, info, dynamic_attempt_urls, dynamic_info, dynamic_logs, error, probe>>

\* lines 850-855: parse_static(u) raises
StaticFail ==
    /\ pc = "static"
    /\ Len(StaticCalls) < Len(candidate_urls)
    /\ \E exc \in StaticFailures :
          LET u == StaticUrl
          IN  /\ static_errors' = Append(static_errors, u \o " -> " \o exc)
              /\ calls' = Append(calls, [kind |-> "static", url |-> u, ok |-> FALSE,
                                         reason |-> exc])
    /\ UNCHANGED <<pc, source_url, canonical_url, candidate_urls, static_infos, best, info,
                   dynamic_attempt_urls, dynamic_info, dynamic_logs, error, probe>>

\* lines 857-858
StaticAllFailed ==
    /\ pc = "static"
    /\ Len(StaticCalls) = Len(candidate_urls)
    /\ static_infos = <<>>
    /\ error' = STATIC_ALL_FAILED \o Join(static_errors, " | ")
    /\ pc' = "raised"
    /\ UNCHANGED <<source_url, canonical_url, candidate_urls, static_infos, static_errors,
                   best, info, dynamic_attempt_urls, dynamic_info, dynamic_logs, calls, probe>>

\* lines 860-874: the seed
seed_info(src, canonical, candidates, errors, b) ==
    LET raw1 == Put(b.raw, "method", "static")
        raw2 == Put(raw1, "canonical_url", canonical)
        raw3 == Put(raw2, "attempted_urls", candidates)
        raw4 == Put(raw3, "needs_login", Contains(src, "needs_login=1"))
        raw5 == IF errors # <<>> THEN Put(raw4, "static_errors", errors) ELSE raw4
    IN  [source_url |-> src, final_url |-> b.final_url, title |-> b.title,
         images |-> b.images, videos |-> b.videos, raw |-> raw5]

\* a faulty variant of need_dynamic: only the title is looked at
need_dynamic_title_only(i) == i.title = ""

\* line 876
need_dynamic(i) == i.title = "" \/ Len(i.images) < 1 \/ Len(i.videos) < 1

\* lines 886-888
RECURSIVE queue_candidates(_, _)
queue_candidates(queue, candidates) ==
    IF candidates = <<>> THEN queue
    ELSE LET u == Head(candidates)
         IN  IF (\A i \in 1..Len(queue) : queue[i] # u) /\ ~is_blocked_jump_url(u)
             THEN queue_candidates(Append(queue, u), Tail(candidates))
             ELSE queue_candidates(queue, Tail(candidates))

\* lines 880-888
build_dynamic_attempt_urls(i, src, candidates) ==
    LET First(first_try_url) ==
            IF ~is_blocked_jump_url(first_try_url) THEN first_try_url ELSE src
    IN  queue_candidates(<<First(IF i.final_url # "" THEN i.final_url ELSE src)>>, candidates)

\* lines 860-878: the seed is complete and is returned as it is
ReturnStatic ==
    /\ pc = "static"
    /\ Len(StaticCalls) = Len(candidate_urls)
    /\ static_infos # <<>>
    /\ best' = best_static(static_infos)
    /\ info' = seed_info(source_url, canonical_url, candidate_urls, static_errors, best')
    /\ ~need_dynamic(info')
    /\ pc' = "done"
    /\ UNCHANGED <<source_url, canonical_url, candidate_urls, static_infos, static_errors,
                   dynamic_attempt_urls, dynamic_info, dynamic_logs, error, calls, probe>>

\* lines 860-890: the seed is incomplete and the dynamic queue is built
PlanDynamic ==
    /\ pc = "static"
    /\ Len(StaticCalls) = Len(candidate_urls)
    /\ static_infos # <<>>
    /\ best' = best_static(static_infos)
    /\ info' = seed_info(source_url, canonical_url, candidate_urls, static_errors, best')
    /\ need_dynamic(info')
    /\ dynamic_attempt_urls' = build_dynamic_attempt_urls(info', source_url, candidate_urls)
    /\ pc' = "dynamic"
    /\ UNCHANGED <<source_url, canonical_url, candidate_urls, static_infos, static_errors,
                   dynamic_info, dynamic_logs, error, calls, probe>>

\* lines 898-909: the running result after a successful attempt idx on u
after_dynamic_ok(i, incoming, idx, u) ==
    LET Max(a, b) == IF a >= b THEN a ELSE b
        Counted(merged) ==
            [merged EXCEPT !.raw =
                Put(Put(Put(Put(@, "network_urls_count",
                                Max(Get(@, "network_urls_count", 0),
                                    Get(incoming.raw, "network_urls_count", 0))),
                            "json_video_candidates",
                            Max(Get(@, "json_video_candidates", 0),
                                Get(incoming.raw, "json_video_candidates", 0))),
                        "fallback", "playwright"),
                    "method", "hybrid(static+playwright)")]
    IN  Counted(merge_info(i, incoming, "dynamic_" \o Digit(idx) \o ":" \o u))

\* the 0-based index the dynamic loop is at
DynamicIdx == Len(dynamic_logs)

\* a faulty variant of DynamicOk: the loop goes on after a video was found
DynamicOkNoBreak ==
    /\ pc = "dynamic"
    /\ DynamicIdx < Len(dynamic_attempt_urls)
    /\ \E c \in DynamicCaptures :
          LET u == dynamic_attempt_urls[DynamicIdx + 1]
              capture == [final_url   |-> IF c.redirect = "" THEN u ELSE c.redirect,
                          soup        |-> c.soup,
                          page_assets |-> c.page_assets,
                          requests    |-> c.requests,
                          responses   |-> c.responses]
          IN  /\ dynamic_info' = parse_dynamic_result(u, capture)
              /\ info' = after_dynamic_ok(info, dynamic_info', DynamicIdx, u)
              /\ dynamic_logs' = Append(dynamic_logs, u \o " -> ok")
              /\ calls' = Append(calls, [kind |-> "dynamic", url |-> u, ok |-> TRUE,
                                         reason |-> ""])
    /\ pc' = IF DynamicIdx + 1 = Len(dynamic_attempt_urls) THEN "finalize" ELSE "dynamic"
    /\ UNCHANGED <<source_url, canonical_url, candidate_urls, static_infos, static_errors,
                   best, dynamic_attempt_urls, error, probe>>

\* lines 891-911: parse_dynamic_with_playwright(u) returns
DynamicOk ==
    /\ pc = "dynamic"
    /\ DynamicIdx < Len(dynamic_attempt_urls)
    /\ \E c \in DynamicCaptures :
          LET u == dynamic_attempt_urls[DynamicIdx + 1]
              capture == [final_url   |-> IF c.redirect = "" THEN u ELSE c.redirect,
                          soup        |-> c.soup,
                          page_assets |-> c.page_assets,
                          requests    |-> c.requests,
                          responses   |-> c.responses]
          IN  /\ dynamic_info' = parse_dynamic_result(u, capture)
              /\ info' = after_dynamic_ok(info, dynamic_info', DynamicIdx, u)
              /\ dynamic_logs' = Append(dynamic_logs, u \o " -> ok")
              /\ calls' = Append(calls, [kind |-> "dynamic", url |-> u, ok |-> TRUE,
                                         reason |-> ""])
    /\ pc' = IF info'.videos # <<>> \/ DynamicIdx + 1 = Len(dynamic_attempt_urls)
             THEN "finalize"
             ELSE "dynamic"
    /\ UNCHANGED <<source_url, canonical_url, candidate_urls, static_infos, static_errors,
                   best, dynamic_attempt_urls, error, probe>>

\* lines 891-913: parse_dynamic_with_playwright(u) raises
DynamicFail ==
    /\ pc = "dynamic"
    /\ DynamicIdx < Len(dynamic_attempt_urls)
    /\ \E exc \in DynamicFailures :
          LET u == dynamic_attempt_urls[DynamicIdx + 1]
          IN  /\ dynamic_logs' = Append(dynamic_logs, u \o " -> failed: " \o exc)
              /\ calls' = Append(calls, [kind |-> "dynamic", url |-> u, ok |-> FALSE,
                                         reason |-> exc])
    /\ pc' = IF DynamicIdx + 1 = Len(dynamic_attempt_urls) THEN "finalize" ELSE "dynamic"
    /\ UNCHANGED <<source_url, canonical_url, candidate_urls, static_infos, static_errors,
                   best, info, dynamic_attempt_urls, dynamic_info, error, probe>>

\* a faulty variant of finalize_info: the video lists are left as they are
finalize_info_unfiltered(i, logs) ==
    IF logs # <<>> THEN [i EXCEPT !.raw = Put(@, "dynamic_attempts", logs)] ELSE i

\* lines 915-921: the result as it is returned after the dynamic loop
finalize_info(i, logs) ==
    LET Filtered(raw) ==
            Put(raw, "video_candidates",
                Take(filter_valid_video_urls(Get(raw, "video_candidates", <<>>)),
                     MAX_CANDIDATES))
        Fallback(raw) ==
            Filtered(IF "fallback" \notin DOMAIN raw /\ logs # <<>>
                     THEN Put(raw, "fallback", "playwright_failed: " \o Join(logs, " | "))
                     ELSE raw)
    IN  [i EXCEPT !.videos = Take(filter_valid_video_urls(i.videos), MAX_VIDEOS),
                  !.raw = Fallback(IF logs # <<>> THEN Put(i.raw, "dynamic_attempts", logs)
                                   ELSE i.raw)]

\* lines 915-923
Finalize ==
    /\ pc = "finalize"
    /\ info' = finalize_info(info, dynamic_logs)
    /\ pc' = "done"
    /\ UNCHANGED <<source_url, canonical_url, candidate_urls, static_infos, static_errors,
                   best, dynamic_attempt_urls, dynamic_info, dynamic_logs, error, calls, probe>>

Next ==
    \/ Begin
    \/ StaticOk
    \/ StaticFail
    \/ StaticAllFailed
    \/ ReturnStatic
    \/ PlanDynamic
    \/ DynamicOk
    \/ DynamicFail
    \/ Finalize

Spec == Init /\ [][Next]_vars

\* parse_product_info has returned or raised
Terminated == pc \in {"done", "raised"}

\* Every step of parse_product_info is bounded by a timeout (the requests
\* timeout of fetch_html, line 168; the goto and wait timeouts of the
\* browser, lines 407-500), so the call does not stay at a step for ever: it
\* goes on taking steps until it has returned or raised.  This is
\* WF_vars(Next), written without ENABLED: Next is enabled exactly in the
\* states that are not Terminated.
FairSpec == Spec /\ ([]<>Terminated \/ []<><<Next>>_vars)

\* ------------------------------------------------------------------------
\* score_info on its own
\* ------------------------------------------------------------------------

\* the titles a result can carry: none, the placeholder, a real one
ScoreTitles == {"", PLACEHOLDER_TITLE, "Test Product"}

\* a result with the given title, n images and m videos, all distinct
ScoreInput(title, n, m) ==
    [ProductInfo("") EXCEPT !.title = title,
                            !.images = [i \in 1..n |-> ImgUrl(i)],
                            !.videos = [i \in 1..m |-> VidUrl(i)]]

ScoreInit ==
    /\ PpiIdle
    /\ \E title \in ScoreTitles, n \in 0..NumPageImages, m \in 0..(NumPageVideos - 1) :
          probe = [fn |-> "score_info", stage |-> "input", info |-> ScoreInput(title, n, m),
                   score |-> 0, before |-> -1]

\* score_info(info) is called
ScoreIt ==
    /\ probe.stage = "input"
    /\ probe' = [probe EXCEPT !.stage = "scored", !.score = score_info(probe.info)]
    /\ UNCHANGED ppi_vars

\* one more video URL, not among those the result has, is added to it
AddVideo ==
    /\ probe.stage = "scored"
    /\ probe.before = -1
    /\ probe' = [probe EXCEPT !.stage = "input",
                              !.before = probe.score,
                              !.info.videos = Append(@, VidUrl(Len(@) + 1))]
    /\ UNCHANGED ppi_vars

ScoreNext == ScoreIt \/ AddVideo

SpecScore == ScoreInit /\ [][ScoreNext]_vars

\* ------------------------------------------------------------------------
\* canonicalize_pdd_goods_url on its own
\* ------------------------------------------------------------------------

\* the longest run of digits in an input
MaxIdDigits == 6

\* a run of n digits
IdText(n) == SubSeq("1234567890", 1, n)

CanonKeys == {"goods_id", "goodsId", "gid", "id"}

\* query values: nothing, a bare run, a run inside other text, a run whose
\* first digit is percent-escaped
CanonValues ==
    {""} \cup {IdText(n) : n \in 1..MaxIdDigits}
         \cup {"sku" \o IdText(n) \o "x" : n \in 1..MaxIdDigits}
         \cup {"%39" \o IdText(n) : n \in 1..MaxIdDigits}

\* what follows the first field of a query
CanonMoreFields == {"", "&goods_id=7654321", "&gid=55555&goodsId=666666"}

CanonQueries ==
    {""} \cup {"?" \o k \o "=" \o v \o more :
                  k \in CanonKeys, v \in CanonValues, more \in CanonMoreFields}

CanonPaths ==
    {"goods.html", "Goods.html/9"} \cup {"goods/" \o IdText(n) : n \in 1..MaxIdDigits}

CanonFragments == {"", "#goods_id=24680"}

\* the texts canonicalize_pdd_goods_url is called with
CanonInputs ==
    {"https://mobile.yangkeduo.com/" \o p \o q \o f :
        p \in CanonPaths, q \in CanonQueries, f \in CanonFragments}

CanonInit ==
    /\ PpiIdle
    /\ \E u \in CanonInputs :
          probe = [fn |-> "canonicalize_pdd_goods_url", stage |-> "input", url |-> u,
                   id |-> "", once |-> "", id_after |-> "", twice |-> ""]

\* canonicalize_pdd_goods_url(url), and extract_goods_id(url) next to it
CanonOnce ==
    /\ probe.stage = "input"
    /\ probe' = [probe EXCEPT !.stage = "once",
                              !.id = extract_goods_id(probe.url),
                              !.once = canonicalize_pdd_goods_url(probe.url)]
    /\ UNCHANGED ppi_vars

\* the same two calls on the canonical form
CanonTwice ==
    /\ probe.stage = "once"
    /\ probe' = [probe EXCEPT !.stage = "twice",
                              !.id_after = extract_goods_id(probe.once),
                              !.twice = canonicalize_pdd_goods_url(probe.once)]
    /\ UNCHANGED ppi_vars

CanonNext == CanonOnce \/ CanonTwice

SpecCanon == CanonInit /\ [][CanonNext]_vars

\* ------------------------------------------------------------------------
\* normalize_url and the canonicaliser on share text
\* ------------------------------------------------------------------------

\* one-character stand-ins for the two non-ASCII marks extract_url strips:
\* the fullwidth comma (U+FF0C) and the ideographic full stop (U+3002)
FULLWIDTH_COMMA == "^"
IDEOGRAPHIC_FULL_STOP == "~"

\* the set of characters of .strip("<U+FF0C><U+3002>,.")
URL_TRAILING_MARKS == {FULLWIDTH_COMMA, IDEOGRAPHIC_FULL_STOP, ",", "."}

\* the length of the longest prefix of s that [^\s]* matches
NonSpaceLen(s) ==
    Least({i \in 1..Len(s) : SubSeq(s, i, i) \in WHITESPACE}, Len(s) + 1) - 1

\* the leftmost match of https?://[^\s]+ in t (case-sensitive), "" if none
url_search(t) ==
    LET SchemeLen(u) == IF StartsWith(u, "https://") THEN 8
                        ELSE IF StartsWith(u, "http://") THEN 7 ELSE 0
        Cut(i, p) == IF i = 0 THEN "" ELSE SubSeq(t, i, i + p + NonSpaceLen(From(t, i + p)) - 1)
        First(i) == Cut(i, SchemeLen(From(t, i)))
    IN  First(Least({i \in 1..Len(t) :
                        \E p \in {SchemeLen(From(t, i))} :
                            p > 0 /\ NonSpaceLen(From(t, i + p)) > 0},
                    0))

\* a faulty variant of extract_url: the match is returned as it was found
extract_url_unstripped(text) ==
    LET Result(t, match) == IF match # "" THEN match ELSE t
        Stripped(t) == Result(t, url_search(t))
    IN  Stripped(Strip(text))

extract_url(text) ==
    LET Result(t, match) ==
            IF match # "" THEN StripChars(match, URL_TRAILING_MARKS) ELSE t
        Stripped(t) == Result(t, url_search(t))
    IN  Stripped(Strip(text))

normalize_url(raw) ==
    LET Schemed(cleaned) ==
            IF cleaned = "" THEN ""
            ELSE IF urlparse(cleaned).scheme = "" THEN "https://" \o cleaned
            ELSE cleaned
    IN  Schemed(extract_url(raw))

\* what a share text says before its URL (the second stands for four
\* non-ASCII characters and a space)
ShareLeads == {"", "@@@@ ", "look: ", "  "}

\* the ids a shared URL carries
ShareIds == {IdText(n) : n \in 1..MaxIdDigits} \cup {"42"}

\* the URL-like token of a share text
ShareTokens ==
    {h \o "mobile.yangkeduo.com/" \o p \o "?goods_id=" \o id :
        h \in {"https://", "http://", ""}, p \in {"xyz.html", "goods.html"}, id \in ShareIds}

\* what follows the token: nothing, marks glued to it, marks after a space
ShareTails ==
    {"", " ^", "^", "~", ",", ".", "^~,.", " .", "\n", " ^ more"}

ShareTexts == {l \o t \o e : l \in ShareLeads, t \in ShareTokens, e \in ShareTails}

ShareInit ==
    /\ PpiIdle
    /\ \E text \in ShareTexts :
          probe = [fn |-> "normalize_url", stage |-> "input", text |-> text,
                   url |-> "", id |-> "", canonical |-> ""]

\* line 1099: source_url = normalize_url(raw_input)
ShareNormalize ==
    /\ probe.stage = "input"
    /\ probe' = [probe EXCEPT !.stage = "normalized", !.url = normalize_url(probe.text)]
    /\ UNCHANGED ppi_vars

\* line 1103: url = canonicalize_pdd_goods_url(source_url), and
\* extract_goods_id(source_url) next to it
ShareCanonicalize ==
    /\ probe.stage = "normalized"
    /\ probe' = [probe EXCEPT !.stage = "canonical",
                              !.id = extract_goods_id(probe.url),
                              !.canonical = canonicalize_pdd_goods_url(probe.url)]
    /\ UNCHANGED ppi_vars

ShareNext == ShareNormalize \/ ShareCanonicalize

SpecShare == ShareInit /\ [][ShareNext]_vars

\* ------------------------------------------------------------------------
\* classify_media_urls on its own
\* ------------------------------------------------------------------------

\* the longest candidate list
MaxBatch == 3

\* the candidates a page can hand to the classifier: the same image under
\* three spellings, a video, a script whose name holds a
\* video keyword, a clip under a player directory, an image under a video
\* directory, and a stream without an extension under two spellings
ClassifyUrls ==
    {"https://img.pdd.cn/g/1.jpg",
     "https://img.pdd.cn/g/1.jpg?w=200",
     " //img.pdd.cn/g/1.jpg?w=50",
     "https://vid.pdd.cn/v/1.mp4",
     "https://static.pdd.cn/svideo_index.js",
     "https://cdn.pdd.cn/assets/video-player/clip.mp4",
     "https://cdn.pdd.cn/video/cover.jpg",
     "https://cdn.pdd.cn/video/77?fmt=hls",
     "https://cdn.pdd.cn/video/77"}

ClassifyBatches ==
    UNION {[1..n -> ClassifyUrls] : n \in 0..MaxBatch}

ClassifyInit ==
    /\ PpiIdle
    /\ \E candidates \in ClassifyBatches :
          probe = [fn |-> "classify_media_urls", stage |-> "input",
                   candidates |-> candidates, images |-> <<>>, videos |-> <<>>,
                   urls |-> <<>>, classes |-> <<>>]

\* classify_media_urls(candidates)
ClassifyBatch ==
    /\ probe.fn = "classify_media_urls"
    /\ probe.stage = "input"
    /\ \E media \in {classify_media_urls(probe.candidates)} :
          probe' = [probe EXCEPT !.stage = "batch",
                                 !.images = media.images,
                                 !.videos = media.videos]
    /\ UNCHANGED ppi_vars

\* lines 207-233 for each candidate on its own: the normalised url and the
\* list it is appended to
ClassifyEach ==
    /\ probe.fn = "classify_media_urls"
    /\ probe.stage = "batch"
    /\ \E urls \in {[i \in 1..Len(probe.candidates) |->
                        normalize_candidate_url(Strip(probe.candidates[i]))]} :
          probe' = [probe EXCEPT !.stage = "each",
                                 !.urls = urls,
                                 !.classes = [i \in 1..Len(urls) |-> classify_url(urls[i])]]
    /\ UNCHANGED ppi_vars

ClassifyNext == ClassifyBatch \/ ClassifyEach

SpecClassify == ClassifyInit /\ [][ClassifyNext]_vars

\* ------------------------------------------------------------------------
\* one candidate through classify_media_urls' loop body
\* ------------------------------------------------------------------------

\* what a candidate starts with: a scheme and host, a protocol-relative
\* host, nothing (a path on the page's host), a directory whose name starts
\* with "http"
OneHeads == {"https://cdn.pdd.cn", "http://cdn.pdd.cn", "//cdn.pdd.cn", "", "httpdocs"}

OneDirs == {"/assets/video-player/", "/static/", "/video/", "/img/"}

OneNames == {"svideo_index", "clip", "cover", "77"}

OneExts == {".js", ".mp4", ".jpg", "", ".css?v=2", ".MP4?x=1"}

OneCandidates ==
    {h \o d \o n \o e : h \in OneHeads, d \in OneDirs, n \in OneNames, e \in OneExts}

OneInit ==
    /\ PpiIdle
    /\ \E raw \in OneCandidates :
          probe = [fn |-> "classify_url", stage |-> "input", raw |-> raw,
                   url |-> "", class |-> ""]

\* line 207: url = normalize_candidate_url(raw.strip())
OneNormalize ==
    /\ probe.fn = "classify_url"
    /\ probe.stage = "input"
    /\ probe' = [probe EXCEPT !.stage = "normalized",
                              !.url = normalize_candidate_url(Strip(probe.raw))]
    /\ UNCHANGED ppi_vars

\* lines 208-233: the list the url is appended to, if any
OneClassify ==
    /\ probe.fn = "classify_url"
    /\ probe.stage = "normalized"
    /\ probe' = [probe EXCEPT !.stage = "classified", !.class = classify_url(probe.url)]
    /\ UNCHANGED ppi_vars

OneNext == OneNormalize \/ OneClassify

SpecClassifyOne == OneInit /\ [][OneNext]_vars

\* ------------------------------------------------------------------------
\* parse_dynamic_with_playwright: the browser part of one call
\* ------------------------------------------------------------------------

\* the listeners of lines 459-462
PAGE_LISTENERS == <<"request", "response", "popup">>
CONTEXT_LISTENERS == <<"page">>

\* the URL the dynamic call on its own is asked for
DYNAMIC_SOURCE == "https://mobile.yangkeduo.com/goods.html?goods_id=123456789"

\* where a page asked for url can be: at url, or redirected to the login
\* page or to the app-download page
PageUrls(url) == {url, LOGIN_REDIRECT, BLOCKED_REDIRECT}

\* the path words of a login page (line 805)
LOGIN_PATH_WORDS == {"/login", "/passport", "/oauth", "/verify"}

\* page_looks_logged_out(page) (lines 780-822) on a page at page_url, where
\* has_content is whether the first page.evaluate returned a true value and
\* has_login_ui whether the second did (a page.evaluate that raises counts
\* as FALSE for the first, line 801, and as TRUE for the second, line 821)
page_looks_logged_out(page_url, has_content, has_login_ui) ==
    LET Look(current_url, path) ==
            IF has_content THEN FALSE
            ELSE IF AnyIn(path, LOGIN_PATH_WORDS) THEN TRUE
            ELSE IF Contains(current_url, "needs_login=1")
                    /\ ~Contains(current_url, "goods_id=")
                    /\ ~Contains(path, "fyxmkief") THEN TRUE
            ELSE IF is_blocked_jump_url(current_url) THEN TRUE
            ELSE has_login_ui
    IN  Look(Lower(page_url), urlparse(Lower(page_url)).path)

\* what a browser operation raises when it fails
BrowserErrors ==
    {"Timeout 45000ms exceeded.", "Target page, context or browser has been closed"}

\* the members of a tuple
Range(s) == {s[i] : i \in 1..Len(s)}

\* The state of one call, held in probe:
\*   live          whether live_page was supplied
\*   pc            the step the call is at
\*   should_close  line 373 / 402
\*   driver        sync_playwright() of line 383: "absent", "running", "stopped"
\*   context       the context of line 399: "absent", "open", "closed"
\*   attached      the listeners attached to the page and to its context
\*   removals      the listeners remove_listener was called for
\*   disposals     the calls made by lines 532-540
\*   pending       the exception on its way through the finally clause
\*   trace         the browser steps taken, in order
\*   outcome       "", "returned" or "raised"
\*   source_url    the URL the call is asked for
\*   page_url      page.url
\*   looked        what page_looks_logged_out(page) returned: "" when it was
\*                 not called, "yes" or "no"
\*   navigations   the page.goto calls made: the target of each and the URL
\*                 it landed on ("" when it raised)
DynInit ==
    /\ PpiIdle
    /\ \E live \in BOOLEAN, page_url \in PageUrls(DYNAMIC_SOURCE) :
          /\ ~live => page_url = DYNAMIC_SOURCE
          /\ probe = [fn |-> "parse_dynamic_with_playwright", live |-> live, pc |-> "acquire",
                      should_close |-> FALSE, driver |-> "absent", context |-> "absent",
                      attached |-> {}, removals |-> {}, disposals |-> <<>>,
                      pending |-> "", trace |-> <<>>, outcome |-> "",
                      source_url |-> DYNAMIC_SOURCE,
                      page_url |-> IF live THEN page_url ELSE "about:blank",
                      looked |-> "", navigations |-> <<>>]

DynAt(step) == probe.fn = "parse_dynamic_with_playwright" /\ probe.pc = step

\* the call ends by raising exc
DynRaise(p, exc) == [p EXCEPT !.pc = "ended", !.outcome = "raised", !.pending = exc]

\* lines 374-375: the live page is used as it is
DynUseLivePage ==
    /\ DynAt("acquire")
    /\ probe.live
    /\ probe' = [probe EXCEPT !.pc = "register"]
    /\ UNCHANGED ppi_vars

\* lines 377-380: playwright cannot be imported
DynNoPlaywright ==
    /\ DynAt("acquire")
    /\ ~probe.live
    /\ probe' = DynRaise(probe, "playwright is not installed")
    /\ UNCHANGED ppi_vars

\* lines 382-402: the driver is started; the launch of the browser, of its
\* context or of its page either succeeds or raises
DynLaunch ==
    /\ DynAt("acquire")
    /\ ~probe.live
    /\ \/ probe' = [probe EXCEPT !.pc = "register", !.driver = "running",
                                 !.context = "open", !.should_close = TRUE,
                                 !.trace = Append(@, "launch")]
       \/ probe' = DynRaise([probe EXCEPT !.driver = "running"],
                            "Executable doesn't exist")
    /\ UNCHANGED ppi_vars

\* lines 459-462
DynRegister ==
    /\ DynAt("register")
    /\ probe' = [probe EXCEPT !.pc = IF probe.live THEN "look" ELSE "navigate",
                              !.attached = Range(PAGE_LISTENERS) \cup Range(CONTEXT_LISTENERS),
                              !.trace = Append(@, "register")]
    /\ UNCHANGED ppi_vars

\* a faulty variant of DynLook: the page is navigated whatever the look says
DynLookThenNavigate ==
    /\ DynAt("look")
    /\ \E has_content \in BOOLEAN, has_login_ui \in BOOLEAN :
          \E logged_out \in {page_looks_logged_out(probe.page_url, has_content, has_login_ui)} :
             probe' = [probe EXCEPT !.pc = "navigate",
                                    !.looked = IF logged_out THEN "yes" ELSE "no"]
    /\ UNCHANGED ppi_vars

\* lines 468-473: use_current_page_first = not page_looks_logged_out(page),
\* and False when the call raises
DynLook ==
    /\ DynAt("look")
    /\ \/ \E has_content \in BOOLEAN, has_login_ui \in BOOLEAN :
             \E logged_out \in {page_looks_logged_out(probe.page_url, has_content,
                                                       has_login_ui)} :
                probe' = [probe EXCEPT !.pc = IF logged_out THEN "navigate" ELSE "settle",
                                       !.looked = IF logged_out THEN "yes" ELSE "no"]
       \/ probe' = [probe EXCEPT !.pc = "navigate", !.looked = "raised"]
    /\ UNCHANGED ppi_vars

\* a page.goto(target) of the call: it lands on a URL or raises
navigated(p, target, landed, exc) ==
    [p EXCEPT !.trace = Append(@, "goto"),
              !.navigations = Append(@, [target |-> target, landed |-> landed]),
              !.page_url = IF exc = "" THEN landed ELSE @,
              !.pending = exc]

\* lines 475-476, and line 407 of safe_goto: page.goto(source_url)
DynNavigate ==
    /\ DynAt("navigate")
    /\ \/ \E landed \in PageUrls(probe.source_url) :
             probe' = [navigated(probe, probe.source_url, landed, "") EXCEPT
                          !.pc = IF is_blocked_jump_url(landed) THEN "renavigate"
                                 ELSE "settle"]
       \/ \E exc \in BrowserErrors :
             probe' = [navigated(probe, probe.source_url, "", exc) EXCEPT
                          !.pc = "teardown_page"]
    /\ UNCHANGED ppi_vars

\* lines 408-409 of safe_goto: the page is on a blocked URL, and
\* page.goto(source_url) is called once more
DynRenavigate ==
    /\ DynAt("renavigate")
    /\ \/ \E landed \in PageUrls(probe.source_url) :
             probe' = [navigated(probe, probe.source_url, landed, "") EXCEPT !.pc = "settle"]
       \/ \E exc \in BrowserErrors :
             probe' = [navigated(probe, probe.source_url, "", exc) EXCEPT
                          !.pc = "teardown_page"]
    /\ UNCHANGED ppi_vars

\* lines 478-501: the waits and the scrolling; wait_for_load_state is
\* guarded, the others are not
DynSettle ==
    /\ DynAt("settle")
    /\ \E exc \in BrowserErrors \cup {""} :
          probe' = [probe EXCEPT !.pc = IF exc = "" THEN "evaluate" ELSE "teardown_page",
                                 !.pending = exc,
                                 !.trace = Append(@, "settle")]
    /\ UNCHANGED ppi_vars

\* lines 503-519: page.url, page.content() and page.evaluate()
DynEvaluate ==
    /\ DynAt("evaluate")
    /\ \E exc \in BrowserErrors \cup {""} :
          probe' = [probe EXCEPT !.pc = "teardown_page",
                                 !.pending = exc,
                                 !.trace = Append(@, "evaluate")]
    /\ UNCHANGED ppi_vars

\* lines 521-527: the three page.remove_listener calls share one try: the
\* first n - 1 return, and the n-th raises unless n is beyond the last; the
\* listener whose removal raised is detached or not
DynTeardownPage ==
    /\ DynAt("teardown_page")
    /\ \E n \in 1..(Len(PAGE_LISTENERS) + 1), detached \in BOOLEAN :
          LET called == {PAGE_LISTENERS[i] : i \in 1..Min(n, Len(PAGE_LISTENERS))}
              gone == {PAGE_LISTENERS[i] :
                          i \in 1..(IF detached THEN Min(n, Len(PAGE_LISTENERS)) ELSE n - 1)}
          IN  probe' = [probe EXCEPT !.pc = "teardown_context",
                                     !.removals = @ \cup called,
                                     !.attached = @ \ gone,
                                     !.trace = Append(@, "teardown")]
    /\ UNCHANGED ppi_vars

\* lines 528-531, and the end of the try statement: a pending exception
\* leaves the function here
DynTeardownContext ==
    /\ DynAt("teardown_context")
    /\ \E detached \in BOOLEAN :
          LET torn == [probe EXCEPT !.removals = @ \cup Range(CONTEXT_LISTENERS),
                                    !.attached = IF detached THEN @ \ Range(CONTEXT_LISTENERS)
                                                 ELSE @]
          IN  probe' = IF probe.pending # "" THEN DynRaise(torn, probe.pending)
                       ELSE [torn EXCEPT !.pc = "dispose"]
    /\ UNCHANGED ppi_vars

\* lines 532-540: page.context.close() and p.stop(), each in its own try
DynDispose ==
    /\ DynAt("dispose")
    /\ \E closed \in BOOLEAN, stopped \in BOOLEAN :
          probe' = IF ~probe.should_close
                   THEN [probe EXCEPT !.pc = "ended", !.outcome = "returned"]
                   ELSE [probe EXCEPT !.pc = "ended", !.outcome = "returned",
                                      !.disposals = <<"context.close", "p.stop">>,
                                      !.context = IF closed THEN "closed" ELSE @,
                                      !.driver = IF stopped THEN "stopped" ELSE @]
    /\ UNCHANGED ppi_vars

DynNext ==
    \/ DynUseLivePage
    \/ DynNoPlaywright
    \/ DynLaunch
    \/ DynRegister
    \/ DynLook
    \/ DynNavigate
    \/ DynRenavigate
    \/ DynSettle
    \/ DynEvaluate
    \/ DynTeardownPage
    \/ DynTeardownContext
    \/ DynDispose

SpecDynamicCall == DynInit /\ [][DynNext]_vars

\* ------------------------------------------------------------------------
\* on_response over the responses of one call
\* ------------------------------------------------------------------------

\* the most responses one call sees, and the most of them that are not
\* XHR, fetch or JSON-typed
MaxResponses == 82
MaxOtherResponses == 1

\* lines 419-433: whether on_response reads the body of the response and
\* goes on to process it (line 435 is reached)
captures_body(acc, response) ==
    /\ \/ response.resource_type \in {"xhr", "fetch"}
       \/ Contains(Lower(response.content_type), "json")
    /\ Len(acc.json_urls) < JSON_URLS_LIMIT
    /\ response.body_ok
    /\ Contains(response.body, "http")
    /\ AnyIn(Lower(response.body), JSON_BODY_KEYWORDS)

\* an API response whose body qualifies and holds no URL
TextResponse ==
    [url |-> "https://api.pdd.cn/goods/detail", resource_type |-> "xhr",
     content_type |-> "application/json", body_ok |-> TRUE,
     body |-> "{\"goods\":\"http\"}", json_ok |-> TRUE,
     leaves |-> <<[path |-> "goods", value |-> "http"]>>]

\* an API response whose body qualifies and holds one URL
LinkResponse ==
    [url |-> "https://api.pdd.cn/goods/detail", resource_type |-> "fetch",
     content_type |-> "text/plain", body_ok |-> TRUE,
     body |-> "{\"goods\":\"http://g.cn/1\"}", json_ok |-> TRUE,
     leaves |-> <<[path |-> "goods", value |-> "http://g.cn/1"]>>]

\* a response on_response does not take for JSON
OtherResponse ==
    [url |-> "https://api.pdd.cn/goods/detail", resource_type |-> "document",
     content_type |-> "text/html", body_ok |-> TRUE,
     body |-> "goods http", json_ok |-> FALSE, leaves |-> <<>>]

\* The state of the listener, held in probe: the four lists of lines
\* 369-372 it appends to, the number of responses seen, and the number of
\* bodies it captured and processed.
RespInit ==
    /\ PpiIdle
    /\ probe = [fn |-> "on_response", acc |-> NoResponses, seen |-> 0, others |-> 0,
                bodies |-> 0]

\* the listener's state after on_response(response)
responded(p, response) ==
    [p EXCEPT !.acc = on_response(p.acc, response),
              !.seen = @ + 1,
              !.bodies = IF captures_body(p.acc, response) THEN @ + 1 ELSE @]

\* the browser delivers a response without a URL in its body
RespondText ==
    /\ probe.fn = "on_response"
    /\ probe.seen < MaxResponses
    /\ probe' = responded(probe, TextResponse)
    /\ UNCHANGED ppi_vars

\* the browser delivers a response with one URL in its body
RespondLink ==
    /\ probe.fn = "on_response"
    /\ probe.seen < MaxResponses
    /\ probe' = responded(probe, LinkResponse)
    /\ UNCHANGED ppi_vars

\* the browser delivers the document itself
RespondOther ==
    /\ probe.fn = "on_response"
    /\ probe.seen < MaxResponses
    /\ probe.others < MaxOtherResponses
    /\ probe' = [responded(probe, OtherResponse) EXCEPT !.others = @ + 1]
    /\ UNCHANGED ppi_vars

RespNext == RespondText \/ RespondLink \/ RespondOther

SpecResponses == RespInit /\ [][RespNext]_vars

\* ------------------------------------------------------------------------
\* goto_with_recover and ensure_session_page
\* ------------------------------------------------------------------------

\* the message goto_with_recover looks for (line 769)
TARGET_CLOSED == "Target page, context or browser has been closed"

\* ASCII stand-ins for the messages of the two RuntimeErrors (lines 722, 777)
CONTEXT_UNAVAILABLE == "browser context unavailable: reopen the login browser"
SESSION_UNUSABLE == "login session unusable: close the login browser and start again"

\* what context.new_page() raises on a context that is gone
NEW_PAGE_FAILED == "BrowserContext.new_page: " \o TARGET_CLOSED

\* The browser behind a session:
\*   page_open      whether the session's page exists and is open
\*   spare_open     whether context.pages holds another open page
\*   context_alive  whether context.new_page() returns
Browsers == [page_open : BOOLEAN, spare_open : BOOLEAN, context_alive : BOOLEAN]

\* a page other than the one the session holds (0 stands for None)
OtherPage(held) == held + 1

\* ensure_session_page(browser_session) on a session with a context: the
\* page it returns and how it got it ("held": the page the session held,
\* "reused": another open page of the context, "opened": a new page, both
\* stored in the session; "failed": context.new_page() raised)
ensure_session_page(held, browser) ==
    IF held # 0 /\ browser.page_open THEN [page |-> held, how |-> "held"]
    ELSE IF browser.spare_open THEN [page |-> OtherPage(held), how |-> "reused"]
    ELSE IF browser.context_alive THEN [page |-> OtherPage(held), how |-> "opened"]
    ELSE [page |-> 0, how |-> "failed"]

\* The state of one call, held in probe:
\*   has_context  whether the session holds a context
\*   held         browser_session["page"]
\*   browser      the browser as it is now
\*   page         the local variable page
\*   gotos        the page.goto calls made
\*   reloads      the page.reload calls made
\*   first_error  the message of the exception the first try block raised
\*   how          how the recovery got its page, "" before the recovery
\*   found        the browser and the held page as the recovery found them
\*   outcome      "", "returned" or "raised"; error is the message raised
GotoInit ==
    /\ PpiIdle
    /\ \E has_context \in BOOLEAN, held \in 0..1, browser \in Browsers :
          /\ (held = 0 => ~browser.page_open)
          /\ (~has_context => ~(browser.spare_open \/ browser.context_alive))
          /\ probe = [fn |-> "goto_with_recover", pc |-> "acquire",
                      has_context |-> has_context, held |-> held, browser |-> browser,
                      page |-> 0, gotos |-> 0, reloads |-> 0, first_error |-> "",
                      how |-> "", found |-> [browser |-> browser, held |-> held],
                      outcome |-> "", error |-> ""]

GotoAt(step) == probe.fn = "goto_with_recover" /\ probe.pc = step

\* the call ends by raising exc
GotoRaise(p, exc) == [p EXCEPT !.pc = "ended", !.outcome = "raised", !.error = exc]

\* an operation on the page raises: a timeout leaves the browser as it is,
\* a torn-down target leaves it in any state
GotoFailures(browser) ==
    {[exc |-> "Page.goto: Timeout 45000ms exceeded.", browser |-> browser]}
        \cup {[exc |-> "Page.goto: " \o TARGET_CLOSED, browser |-> b] : b \in Browsers}

\* line 759: page = ensure_session_page(browser_session), outside the try
GotoAcquire ==
    /\ GotoAt("acquire")
    /\ \E got \in {ensure_session_page(probe.held, probe.browser)} :
          probe' = IF ~probe.has_context THEN GotoRaise(probe, CONTEXT_UNAVAILABLE)
                   ELSE IF got.how = "failed" THEN GotoRaise(probe, NEW_PAGE_FAILED)
                   ELSE [probe EXCEPT !.pc = "goto", !.page = got.page, !.held = got.page,
                                      !.browser.page_open = TRUE]
    /\ UNCHANGED ppi_vars

\* line 761: the first page.goto
GotoFirst ==
    /\ GotoAt("goto")
    /\ \/ probe' = [probe EXCEPT !.pc = "loaded", !.gotos = @ + 1]
       \/ \E f \in GotoFailures(probe.browser) :
             probe' = [probe EXCEPT !.pc = "failed", !.gotos = @ + 1,
                                    !.first_error = f.exc, !.browser = f.browser]
    /\ UNCHANGED ppi_vars

\* lines 762-766: the wait, and one reload when the page looks blank
GotoLoaded ==
    /\ GotoAt("loaded")
    /\ \/ \E blank \in BOOLEAN :
             probe' = [probe EXCEPT !.pc = "ended", !.outcome = "returned",
                                    !.reloads = IF blank THEN @ + 1 ELSE @]
       \/ \E f \in GotoFailures(probe.browser), blank \in BOOLEAN :
             probe' = [probe EXCEPT !.pc = "failed",
                                    !.reloads = IF blank THEN @ + 1 ELSE @,
                                    !.first_error = f.exc, !.browser = f.browser]
    /\ UNCHANGED ppi_vars

\* lines 767-770: any other failure than a torn-down target is raised again
GotoFailed ==
    /\ GotoAt("failed")
    /\ probe' = IF ~Contains(probe.first_error, TARGET_CLOSED)
                THEN GotoRaise(probe, probe.first_error)
                ELSE [probe EXCEPT !.pc = "recover"]
    /\ UNCHANGED ppi_vars

\* the recovery has its page: the state before the second page.goto
recovered(p, got) ==
    [p EXCEPT !.how = got.how, !.found = [browser |-> p.browser, held |-> p.held],
              !.page = got.page, !.held = IF got.how = "failed" THEN @ ELSE got.page]

\* a faulty variant of GotoRecover: the retry goes to the page the call
\* already had, whatever its state
GotoRecoverSamePage ==
    /\ GotoAt("recover")
    /\ \E got \in {[page |-> probe.page, how |-> "held"]} :
          \/ probe' = [recovered(probe, got) EXCEPT !.pc = "ended", !.outcome = "returned",
                                                    !.gotos = @ + 1]
          \/ probe' = GotoRaise([recovered(probe, got) EXCEPT !.gotos = @ + 1],
                                SESSION_UNUSABLE)
    /\ UNCHANGED ppi_vars

\* lines 772-777: ensure_session_page again, one more page.goto, and the
\* RuntimeError for whatever either of them raises
GotoRecover ==
    /\ GotoAt("recover")
    /\ \E got \in {ensure_session_page(probe.held, probe.browser)} :
          \/ /\ got.how = "failed"
             /\ probe' = GotoRaise(recovered(probe, got), SESSION_UNUSABLE)
          \/ /\ got.how # "failed"
             /\ probe' = [recovered(probe, got) EXCEPT !.pc = "ended", !.outcome = "returned",
                                                       !.gotos = @ + 1]
          \/ /\ got.how # "failed"
             /\ probe' = GotoRaise([recovered(probe, got) EXCEPT !.gotos = @ + 1],
                                   SESSION_UNUSABLE)
    /\ UNCHANGED ppi_vars

GotoNext == GotoAcquire \/ GotoFirst \/ GotoLoaded \/ GotoFailed \/ GotoRecover

SpecGoto == GotoInit /\ [][GotoNext]_vars

\* ---------------------------------------------------------------------------
\* close_login_browser_session (lines 655-675)
\* ---------------------------------------------------------------------------

\* The state of one call, held in probe:
\*   context  session.get("context"): "none", "open", or "gone" (a context
\*            the browser has already torn down)
\*   browser  session.get("browser"): "none" (a persistent context has no
\*            browser object, line 607), "open" or "gone" (and then its
\*            context is gone as well)
\*   pw       session.get("pw"): "none" or "running"
\*   stored   the storage-state file: "none", "old" or "new" (written by
\*            this call)
\*   calls    the calls made on the handles, in order
\*   raised   the calls among them that raised
\*   outcome  "" while running, "returned" or "raised"
CloseInit ==
    /\ PpiIdle
    /\ \E context \in {"none", "open", "gone"}, browser \in {"none", "open", "gone"},
          pw \in {"none", "running"}, stored \in {"none", "old"} :
          /\ browser = "gone" => context # "open"
          /\ probe = [fn |-> "close_login_browser_session", pc |-> "persist",
                      context |-> context, browser |-> browser, pw |-> pw,
                      stored |-> stored, calls |-> <<>>, raised |-> {}, outcome |-> ""]

CloseAt(step) == probe.fn = "close_login_browser_session" /\ probe.pc = step

\* a call on a handle was made; it raised or not
called(p, name, fails) ==
    [p EXCEPT !.calls = Append(@, name),
              !.raised = IF fails THEN @ \cup {name} ELSE @]

\* lines 659-661: context.storage_state(path=STORAGE_STATE_FILE); when it
\* raises, the except of line 663 ends the first try block
ClosePersist ==
    /\ CloseAt("persist")
    /\ \/ /\ probe.context = "none"
          /\ probe' = [probe EXCEPT !.pc = "browser"]
       \/ /\ probe.context = "open"
          /\ probe' = [called(probe, "context.storage_state", FALSE) EXCEPT
                          !.pc = "context", !.stored = "new"]
       \/ /\ probe.context # "none"
          /\ probe' = [called(probe, "context.storage_state", TRUE) EXCEPT !.pc = "browser"]
    /\ UNCHANGED ppi_vars

\* line 662: context.close(), reached only after storage_state returned
CloseContext ==
    /\ CloseAt("context")
    /\ \/ probe' = [called(probe, "context.close", FALSE) EXCEPT
                       !.pc = "browser", !.context = "closed"]
       \/ probe' = [called(probe, "context.close", TRUE) EXCEPT !.pc = "browser"]
    /\ UNCHANGED ppi_vars

\* lines 665-669: browser.close() in its own try
CloseBrowser ==
    /\ CloseAt("browser")
    /\ \/ /\ probe.browser = "none"
          /\ probe' = [probe EXCEPT !.pc = "driver"]
       \/ /\ probe.browser # "none"
          /\ probe' = [called(probe, "browser.close", FALSE) EXCEPT
                          !.pc = "driver", !.browser = "closed",
                          !.context = IF @ = "open" THEN "closed" ELSE @]
       \/ /\ probe.browser # "none"
          /\ probe' = [called(probe, "browser.close", TRUE) EXCEPT !.pc = "driver"]
    /\ UNCHANGED ppi_vars

\* lines 670-674: pw.stop() in its own try, then the return
CloseDriver ==
    /\ CloseAt("driver")
    /\ \/ /\ probe.pw = "none"
          /\ probe' = [probe EXCEPT !.pc = "ended", !.outcome = "returned"]
       \/ /\ probe.pw # "none"
          /\ probe' = [called(probe, "pw.stop", FALSE) EXCEPT
                          !.pc = "ended", !.outcome = "returned", !.pw = "stopped"]
       \/ /\ probe.pw # "none"
          /\ probe' = [called(probe, "pw.stop", TRUE) EXCEPT
                          !.pc = "ended", !.outcome = "returned"]
    /\ UNCHANGED ppi_vars

CloseNext == ClosePersist \/ CloseContext \/ CloseBrowser \/ CloseDriver

SpecClose == CloseInit /\ [][CloseNext]_vars

\* ------------------------------------------------------------------------
\* candidates without a recognised extension through the same loop body
\* ------------------------------------------------------------------------

HintDirs == {"/", "/a/", "/video/", "/img/", "/goods/"}

HintNames == {"discover", "play", "stream", "clip", "cover", "hls", "item"}

HintTails == {"", "?from=video", "?t=img", ".png"}

HintCandidates ==
    {"https://cdn.pdd.cn" \o d \o n \o t : d \in HintDirs, n \in HintNames, t \in HintTails}

\* one element of the list classify_media_urls is called with
HintInit ==
    /\ PpiIdle
    /\ \E raw \in HintCandidates :
          probe = [fn |-> "classify_url", stage |-> "input", raw |-> raw,
                   url |-> "", class |-> ""]

SpecTwoSignal == HintInit /\ [][OneNext]_vars

\* ------------------------------------------------------------------------
\* the choice of the seed among two static results
\* ------------------------------------------------------------------------

\* the results parse_static can return: at most MAX_IMAGES images and
\* MAX_VIDEOS videos (lines 351-352)
RankInputs ==
    {ScoreInput(title, n, m) : title \in ScoreTitles, n \in 0..MAX_IMAGES, m \in 0..MAX_VIDEOS}

RankInit ==
    /\ PpiIdle
    /\ \E a \in RankInputs, b \in RankInputs :
          probe = [fn |-> "best_static", stage |-> "input", static_infos |-> <<a, b>>,
                   scores |-> <<>>, best |-> ProductInfo("")]

\* line 860: best = max(static_infos, key=score_info)
RankSeed ==
    /\ probe.fn = "best_static"
    /\ probe.stage = "input"
    /\ probe' = [probe EXCEPT !.stage = "chosen",
                              !.scores = [i \in 1..Len(probe.static_infos) |->
                                             score_info(probe.static_infos[i])],
                              !.best = best_static(probe.static_infos)]
    /\ UNCHANGED ppi_vars

SpecRank == RankInit /\ [][RankSeed]_vars

\* ------------------------------------------------------------------------
\* one press of the run button in main (lines 1098-1154)
\* ------------------------------------------------------------------------

\* what the operator has typed into the text area
RunInputs ==
    {"", "look: https://mobile.yangkeduo.com/share.html?gid=987654321~",
     "https://mobile.yangkeduo.com/goods.html?goods_id=123456789"}

\* The state of the run, held in probe:
\*   raw_input, login_confirmed   the widgets' values
\*   session       st.session_state["browser_session"]: "none", "live", or
\*                 "dead" (a session browser_session_alive says no to)
\*   held          whether the local browser_session holds a session with a page
\*   source_url, url, active_url  the locals of main
\*   page_url      page.url
\*   queue, idx    dynamic_attempt_urls of parse_product_info and the index
\*                 of the attempt to make next
\*   events        what the run has done so far, in order: "goto" is a
\*                 page.goto on the session's page that returned,
\*                 "goto_failed" one that raised, "storage_state" a call of
\*                 context.storage_state(path=STORAGE_STATE_FILE)
\*   info          the source_url of the ProductInfo parse_product_info
\*                 returned, "" when it has not returned
\*   outcome       "" while running, "invalid", "gated", "failed" (st.exception)
\*                 or "delivered"
RunInit ==
    /\ PpiIdle
    /\ \E raw_input \in RunInputs, login_confirmed \in BOOLEAN,
          session \in {"none", "live", "dead"} :
          probe = [fn |-> "main", pc |-> "start", raw_input |-> raw_input,
                   login_confirmed |-> login_confirmed, session |-> session,
                   held |-> session # "none", source_url |-> "", url |-> "",
                   active_url |-> "", page_url |-> "", queue |-> <<>>, idx |-> 0,
                   events |-> <<>>, info |-> "", outcome |-> ""]

RunAt(step) == probe.fn = "main" /\ probe.pc = step

\* the run ends
RunEnd(p, outcome) == [p EXCEPT !.pc = "ended", !.outcome = outcome]

\* lines 1099-1106
RunNormalize ==
    /\ RunAt("start")
    /\ \E normalized \in {normalize_url(probe.raw_input)} :
          probe' = IF normalized = ""
                   THEN RunEnd([probe EXCEPT !.events = Append(@, "st.error")], "invalid")
                   ELSE [probe EXCEPT !.pc = "session", !.source_url = normalized,
                                      !.url = canonicalize_pdd_goods_url(normalized)]
    /\ UNCHANGED ppi_vars

\* lines 1108-1118: a live session is reused; otherwise the stored one is
\* closed and ensure_login_browser_session() returns a new one or raises
RunSession ==
    /\ RunAt("session")
    /\ \/ /\ probe.session = "live"
          /\ probe' = [probe EXCEPT !.pc = "goto"]
       \/ /\ probe.session # "live"
          /\ \E closed \in {IF probe.session = "dead"
                            THEN Append(probe.events, "close_login_browser_session")
                            ELSE probe.events} :
                \/ probe' = [probe EXCEPT !.pc = "goto", !.session = "live", !.held = TRUE,
                                          !.events = Append(closed, "launch")]
                \/ probe' = [probe EXCEPT !.pc = "failed", !.session = "none",
                                          !.events = closed]
    /\ UNCHANGED ppi_vars

\* lines 1119-1120: goto_with_recover(url, browser_session) returns after
\* its first page.goto or after the page.goto of its recovery, or raises
RunGoto ==
    /\ RunAt("goto")
    /\ \/ \E landed \in PageUrls(probe.url) \cup {""}, recovered_once \in BOOLEAN :
             probe' = [probe EXCEPT !.pc = "gate", !.page_url = landed,
                                    !.events = @ \o (IF recovered_once
                                                     THEN <<"goto_failed", "goto">>
                                                     ELSE <<"goto">>)]
       \/ \E tried \in {<<"goto_failed">>, <<"goto">>, <<"goto_failed", "goto_failed">>} :
             probe' = [probe EXCEPT !.pc = "failed", !.events = @ \o tried]
    /\ UNCHANGED ppi_vars

\* a faulty variant of RunGate: the run goes on without the confirmation
RunGateOpen ==
    /\ RunAt("gate")
    /\ probe' = [probe EXCEPT !.pc = "parse",
                              !.events = Append(@, "storage_state"),
                              !.active_url = IF probe.page_url # ""
                                             THEN probe.page_url ELSE probe.url]
    /\ UNCHANGED ppi_vars

\* lines 1122-1139: without the operator's confirmation the state is stored
\* and the run ends; with it the state is stored and the run goes on
RunGate ==
    /\ RunAt("gate")
    /\ \E stored \in {[probe EXCEPT !.events = Append(@, "storage_state")]} :
          probe' = IF ~probe.login_confirmed
                   THEN RunEnd([stored EXCEPT !.events = Append(@, "st.warning")], "gated")
                   ELSE [stored EXCEPT !.pc = "parse",
                                       !.active_url = IF probe.page_url # ""
                                                      THEN probe.page_url ELSE probe.url]
    /\ UNCHANGED ppi_vars

\* lines 1141-1145 with 843-890: parse_product_info(active_url,
\* live_page=page) fails in its static stage, returns its complete seed, or
\* builds its queue of dynamic attempts
RunStatic ==
    /\ RunAt("parse")
    /\ \E src \in {probe.active_url} :
       \E canonical \in {canonicalize_pdd_goods_url(src)} :
       \E candidates \in {IF canonical # src THEN <<src, canonical>> ELSE <<src>>} :
       \E entered \in {[probe EXCEPT !.events = Append(@, "parse_product_info")]} :
          \/ probe' = [entered EXCEPT !.pc = "failed"]
          \/ probe' = [entered EXCEPT !.pc = "deliver", !.info = src]
          \/ \E final_url \in PageUrls(src) :
                probe' = [entered EXCEPT
                             !.pc = "dynamic", !.info = src, !.idx = 1,
                             !.queue = build_dynamic_attempt_urls(
                                           [final_url |-> final_url], src, candidates)]
    /\ UNCHANGED ppi_vars

\* the page.goto calls one parse_dynamic_with_playwright(u, live_page=page)
\* can make on the session's page (lines 468-476 and 406-409)
DynamicGotos ==
    {<<>>, <<"goto">>, <<"goto_failed">>, <<"goto", "goto">>, <<"goto", "goto_failed">>}

\* lines 891-913: one dynamic attempt on the session's page; the loop ends
\* with the queue, or with an attempt that leaves the result with a video
RunDynamic ==
    /\ RunAt("dynamic")
    /\ \E gotos \in DynamicGotos, ok \in BOOLEAN, has_video \in BOOLEAN :
          /\ (gotos # <<>> /\ gotos[Len(gotos)] = "goto_failed") => ~ok
          /\ has_video => ok
          /\ probe' = [probe EXCEPT
                          !.events = (@ \o <<"parse_dynamic_with_playwright">>) \o gotos,
                          !.idx = @ + 1,
                          !.pc = IF has_video \/ probe.idx = Len(probe.queue)
                                 THEN "deliver" ELSE "dynamic"]
    /\ UNCHANGED ppi_vars

\* lines 915-923 and 1154: the result is returned and handed on
RunDeliver ==
    /\ RunAt("deliver")
    /\ probe' = RunEnd([probe EXCEPT !.events = Append(@, "generate_ai_copy")], "delivered")
    /\ UNCHANGED ppi_vars

\* lines 1146-1153: the exception is shown, after the state of a session
\* that has a page is stored
RunFailed ==
    /\ RunAt("failed")
    /\ probe' = RunEnd([probe EXCEPT
                           !.info = "",
                           !.events = (IF probe.held THEN Append(@, "storage_state") ELSE @)
                                          \o <<"st.exception">>],
                       "failed")
    /\ UNCHANGED ppi_vars

RunNext ==
    \/ RunNormalize
    \/ RunSession
    \/ RunGoto
    \/ RunGate
    \/ RunStatic
    \/ RunDynamic
    \/ RunDeliver
    \/ RunFailed

SpecRun == RunInit /\ [][RunNext]_vars

\* ------------------------------------------------------------------------
\* the login browser session across the operator's button presses
\* (main, lines 1060-1120)
\* ------------------------------------------------------------------------

\* how many buttons the operator presses
MaxPresses == 3

\* None as the stored session
NO_SESSION == [present |-> FALSE, context |-> "none", page |-> "none"]

\* a faulty variant of browser_session_alive: a closed page makes the
\* session dead
browser_session_alive_page_too(session) ==
    /\ session.present
    /\ session.context = "open"
    /\ session.page \in {"none", "open"}

\* browser_session_alive(session) (lines 678-697).  session is None or a
\* record of what its handles answer: context is "none" (no handle), "open"
\* or "closed" (what context.is_closed() reports) or "raises"; page is
\* "none", "open", "closed" or "raises" likewise
browser_session_alive(session) ==
    IF ~session.present THEN FALSE
    ELSE IF session.context = "none" THEN FALSE
    ELSE IF session.context \in {"closed", "raises"} THEN FALSE
    ELSE IF session.page = "none" THEN TRUE
    ELSE IF session.page \in {"closed", "raises"} THEN TRUE
    ELSE TRUE

\* what the handles of a launched session can answer to the probe: an open
\* context says open, a context that is gone says closed, and either call
\* can raise
Answers(s) ==
    {[present |-> TRUE, context |-> c, page |-> p] :
        c \in {IF s.context = "open" THEN "open" ELSE "closed", "raises"},
        p \in {IF s.page_open THEN "open" ELSE "closed", "raises"}}

\* The state, held in probe:
\*   stored    st.session_state["browser_session"]: 0 for None, else the
\*             index in sessions of the session stored
\*   sessions  every session launched so far: whether its context is "open"
\*             or "gone", whether its page and another page of it are
\*             open, the page it holds, and whether
\*             close_login_browser_session has been called on it
\*   presses   the buttons pressed so far
\*   last      what the latest press did: the button, what the handles
\*             answered and what the probe said, the session stored before, whether it closed that session,
\*             whether it launched one, and how goto_with_recover got its
\*             page ("" when it was not called)
AppInit ==
    /\ PpiIdle
    /\ probe = [fn |-> "sessions", stored |-> 0, sessions |-> <<>>, presses |-> 0,
                last |-> [button |-> "", answer |-> NO_SESSION, alive |-> FALSE, before |-> 0, closed |-> FALSE,
                          launched |-> FALSE, how |-> "", page |-> 0]]

AppReady == probe.fn = "sessions" /\ probe.presses < MaxPresses

\* the stored session as the probe sees it
Probes(p) ==
    IF p.stored = 0 THEN {NO_SESSION}
    ELSE Answers(p.sessions[p.stored])

\* close_login_browser_session(session) is called on session k
closed_session(p, k) ==
    [p EXCEPT !.sessions[k].closed = TRUE, !.sessions[k].context = "gone",
              !.sessions[k].page_open = FALSE, !.sessions[k].spare_open = FALSE]

\* a button was pressed
pressed(p, button, answer, closed, launched, how) ==
    [p EXCEPT !.presses = @ + 1,
              !.last = [button |-> button, answer |-> answer,
                        alive |-> browser_session_alive(answer), before |-> probe.stored,
                        closed |-> closed, launched |-> launched, how |-> how,
                        page |-> IF p.stored = 0 THEN 0 ELSE p.sessions[p.stored].held]]

\* lines 1060-1064: the close button
PressClose ==
    /\ AppReady
    /\ \E answer \in Probes(probe) :
          \E alive \in {browser_session_alive(answer)} :
             probe' = pressed([(IF alive THEN closed_session(probe, probe.stored) ELSE probe)
                                  EXCEPT !.stored = 0],
                              "close", answer, alive, FALSE, "")
    /\ UNCHANGED ppi_vars

\* the processes pkill reached are gone (lines 62-95)
killed_browsers(p, hit) ==
    [p EXCEPT !.sessions = [k \in 1..Len(@) |->
                               IF hit THEN [@[k] EXCEPT !.context = "gone",
                                                        !.page_open = FALSE,
                                                        !.spare_open = FALSE]
                               ELSE @[k]]]

\* lines 1066-1078: the cleanup button
PressCleanup ==
    /\ AppReady
    /\ \E answer \in Probes(probe), hit \in BOOLEAN :
          \E alive \in {browser_session_alive(answer)} :
             probe' = pressed(killed_browsers(
                                  IF alive
                                  THEN [closed_session(probe, probe.stored) EXCEPT !.stored = 0]
                                  ELSE probe, hit),
                              "cleanup", answer, alive, FALSE, "")
    /\ UNCHANGED ppi_vars

\* lines 1080-1095: the force-cleanup button
PressForceCleanup ==
    /\ AppReady
    /\ \E answer \in Probes(probe), hit \in BOOLEAN :
          \E alive \in {browser_session_alive(answer)} :
             probe' = pressed(killed_browsers(
                                  IF alive
                                  THEN [closed_session(probe, probe.stored) EXCEPT !.stored = 0]
                                  ELSE probe, hit),
                              "force_cleanup", answer, alive, FALSE, "")
    /\ UNCHANGED ppi_vars

\* ensure_login_browser_session() returned (lines 600-652)
launched_session(p) ==
    [p EXCEPT !.sessions = Append(@, [context |-> "open", page_open |-> TRUE,
                                      spare_open |-> FALSE, held |-> 1, closed |-> FALSE]),
              !.stored = Len(p.sessions) + 1]

\* line 1119 with 759: goto_with_recover takes its page with
\* ensure_session_page, which stores the page it returns in the session
with_page(p, got) ==
    IF got.how = "failed" THEN p
    ELSE [p EXCEPT !.sessions[p.stored].held = got.page,
                   !.sessions[p.stored].page_open = TRUE]

\* lines 1098-1154: the run button with a valid link.  A live session is
\* reused; otherwise the stored one is closed and a new one launched (or
\* the launch raises); then goto_with_recover is called
PressRun ==
    /\ AppReady
    /\ \E answer \in Probes(probe) :
       \E alive \in {browser_session_alive(answer)} :
       \E dropped \in {IF alive THEN probe
                       ELSE IF probe.stored = 0 THEN probe
                       ELSE [closed_session(probe, probe.stored) EXCEPT !.stored = 0]} :
          \/ /\ ~alive
             /\ probe' = pressed(dropped, "run", answer, probe.stored # 0, FALSE, "")
          \/ \E ready \in {IF alive THEN probe ELSE launched_session(dropped)} :
             \E s \in {ready.sessions[ready.stored]} :
             \E got \in {ensure_session_page(
                             s.held, [page_open |-> s.page_open, spare_open |-> s.spare_open,
                                      context_alive |-> s.context = "open"])} :
                probe' = pressed(with_page(ready, got), "run", answer,
                                 ~alive /\ probe.stored # 0, ~alive, got.how)
    /\ UNCHANGED ppi_vars

\* the operator, or a crash, closes the window of a session: its context
\* and its pages are gone
WindowCloses ==
    /\ probe.fn = "sessions"
    /\ \E k \in 1..Len(probe.sessions) :
          /\ probe.sessions[k].context = "open"
          /\ probe' = [probe EXCEPT !.sessions[k].context = "gone",
                                    !.sessions[k].page_open = FALSE,
                                    !.sessions[k].spare_open = FALSE]
    /\ UNCHANGED ppi_vars

\* the page of an open session is closed, with another page of the context
\* left open or without
PageCloses ==
    /\ probe.fn = "sessions"
    /\ \E k \in 1..Len(probe.sessions), spare_open \in BOOLEAN :
          /\ probe.sessions[k].context = "open"
          /\ probe.sessions[k].page_open
          /\ probe' = [probe EXCEPT !.sessions[k].page_open = FALSE,
                                    !.sessions[k].spare_open = spare_open]
    /\ UNCHANGED ppi_vars

AppNext ==
    \/ PressClose
    \/ PressCleanup
    \/ PressForceCleanup
    \/ PressRun
    \/ WindowCloses
    \/ PageCloses

SpecSessions == AppInit /\ [][AppNext]_vars

\* ------------------------------------------------------------------------
\* generate_ai_copy (lines 950-995) and fallback_copy (lines 926-947)
\* ------------------------------------------------------------------------

\* ASCII stand-in for the three non-ASCII characters fallback_copy puts in
\* the place of an empty title (line 927)
NO_TITLE == "this product"

COPY_FIELDS == {"selling_points", "script_30s", "xhs_rewrite"}

\* fallback_copy(info): the three texts, of which only the part that holds
\* the title is kept (the rest is the same fixed text for every info)
fallback_copy(i) ==
    LET Texts(title) ==
            [selling_points |-> "1) " \o title,
             script_30s     |-> "0-3s: <<" \o title \o ">>",
             xhs_rewrite    |-> "title: " \o title \o "?"]
    IN  Texts(IF i.title # "" THEN i.title ELSE NO_TITLE)

\* the message contents the service can answer with, and what
\* json.loads(content or "{}") makes of each: an object (with str() of each
\* of its values), an array, or nothing (it raises)
CopyAnswers ==
    {[content |-> "{\"selling_points\":\"a\",\"script_30s\":\"b\",\"xhs_rewrite\":\"c\"}",
      kind |-> "object",
      data |-> [selling_points |-> "a", script_30s |-> "b", xhs_rewrite |-> "c"]],
     [content |-> "{\"selling_points\":1,\"script_30s\":null,\"xhs_rewrite\":[]}",
      kind |-> "object",
      data |-> [selling_points |-> "1", script_30s |-> "None", xhs_rewrite |-> "[]"]],
     [content |-> "{\"selling_points\":\"a\",\"script_30s\":\"b\"}",
      kind |-> "object",
      data |-> [selling_points |-> "a", script_30s |-> "b"]],
     [content |-> "{\"points\":\"a\"}", kind |-> "object", data |-> [points |-> "a"]],
     [content |-> "", kind |-> "object", data |-> <<>>],
     [content |-> "[\"selling_points\",\"script_30s\",\"xhs_rewrite\"]",
      kind |-> "array",
      data |-> <<"selling_points", "script_30s", "xhs_rewrite">>],
     [content |-> "Sorry, I cannot help with that.", kind |-> "invalid", data |-> <<>>]}

\* all(key in data for key in [...]) of line 987
has_all_fields(answer) ==
    IF answer.kind = "object" THEN COPY_FIELDS \subseteq DOMAIN answer.data
    ELSE COPY_FIELDS \subseteq {answer.data[k] : k \in DOMAIN answer.data}

\* what the call of the service raises when it fails
CopyErrors == {"APIConnectionError: Connection error.", "AuthenticationError: 401"}

\* The state of one call, held in probe:
\*   api_key     os.getenv("OPENAI_API_KEY", "").strip()
\*   importable  whether "from openai import OpenAI" succeeds
\*   info        the argument
\*   answer      what the service answered, once it has
\*   result      the value returned, once the call has returned
\*   outcome     "", "returned" or "raised"; error is the message raised
CopyInit ==
    /\ PpiIdle
    /\ \E api_key \in {"", "sk-test"}, importable \in BOOLEAN, title \in ScoreTitles,
          n \in 0..1 :
          probe = [fn |-> "generate_ai_copy", pc |-> "configure", api_key |-> api_key,
                   importable |-> importable, info |-> ScoreInput(title, n, 0),
                   answer |-> [content |-> "", kind |-> "none", data |-> <<>>],
                   result |-> <<>>, fell_back |-> FALSE, outcome |-> "", error |-> ""]

CopyAt(step) == probe.fn = "generate_ai_copy" /\ probe.pc = step

\* the call returns fallback_copy(info)
copy_fallback(p) ==
    [p EXCEPT !.pc = "ended", !.outcome = "returned", !.fell_back = TRUE,
              !.result = fallback_copy(p.info)]

\* lines 951-953
CopyConfigure ==
    /\ CopyAt("configure")
    /\ probe' = IF probe.api_key = "" THEN copy_fallback(probe)
                ELSE [probe EXCEPT !.pc = "import"]
    /\ UNCHANGED ppi_vars

\* lines 955-958
CopyImport ==
    /\ CopyAt("import")
    /\ probe' = IF ~probe.importable THEN copy_fallback(probe)
                ELSE [probe EXCEPT !.pc = "call"]
    /\ UNCHANGED ppi_vars

\* lines 960-985: client.chat.completions.create(...) answers or raises;
\* nothing catches what it raises
CopyCall ==
    /\ CopyAt("call")
    /\ \/ \E answer \in CopyAnswers :
             probe' = [probe EXCEPT !.pc = "parse", !.answer = answer]
       \/ \E exc \in CopyErrors :
             probe' = [probe EXCEPT !.pc = "ended", !.outcome = "raised", !.error = exc]
    /\ UNCHANGED ppi_vars

\* lines 985-994: json.loads, the test for the three fields, and the result
CopyParse ==
    /\ CopyAt("parse")
    /\ probe' =
          IF probe.answer.kind = "invalid"
          THEN [probe EXCEPT !.pc = "ended", !.outcome = "raised",
                             !.error = "JSONDecodeError: Expecting value"]
          ELSE IF ~has_all_fields(probe.answer) THEN copy_fallback(probe)
          ELSE IF probe.answer.kind = "array"
          THEN [probe EXCEPT !.pc = "ended", !.outcome = "raised",
                             !.error = "TypeError: list indices must be integers"]
          ELSE [probe EXCEPT !.pc = "ended", !.outcome = "returned",
                             !.result = [k \in COPY_FIELDS |-> probe.answer.data[k]]]
    /\ UNCHANGED ppi_vars

CopyNext == CopyConfigure \/ CopyImport \/ CopyCall \/ CopyParse

SpecCopy == CopyInit /\ [][CopyNext]_vars

\* ------------------------------------------------------------------------
\* a sequence of merges into one base (merge_info, lines 577-597)
\* ------------------------------------------------------------------------

\* how many results are merged into the base, and how long the image and
\* video lists of an incoming result are
MaxMerges == 2
MaxIncoming == 2

\* the bases: an empty one, one with room for one more image and one more
\* video, and a full one; each is deduplicated by path and within the caps,
\* as parse_static leaves its result (lines 349-352)
MergeBases ==
    {ProductInfo(DYNAMIC_SOURCE),
     [ProductInfo(DYNAMIC_SOURCE) EXCEPT
         !.images = <<"https://img.pdd.cn/g/1.jpg?w=1", "https://img.pdd.cn/g/2.jpg",
                      "https://img.pdd.cn/g/3.jpg", "https://img.pdd.cn/g/4.jpg",
                      "https://img.pdd.cn/g/5.jpg">>,
         !.videos = <<"https://v.pdd.cn/c/1.mp4?t=1", "https://v.pdd.cn/c/2.mp4">>],
     [ProductInfo(DYNAMIC_SOURCE) EXCEPT
         !.images = <<"https://img.pdd.cn/g/1.jpg?w=1", "https://img.pdd.cn/g/2.jpg",
                      "https://img.pdd.cn/g/3.jpg", "https://img.pdd.cn/g/4.jpg",
                      "https://img.pdd.cn/g/5.jpg", "https://img.pdd.cn/g/6.jpg">>,
         !.videos = <<"https://v.pdd.cn/c/1.mp4?t=1", "https://v.pdd.cn/c/2.mp4",
                      "https://v.pdd.cn/c/3.mp4">>]}

\* the images and the videos an incoming result can list: entries of a
\* path the base has, of a new path, and of one path under two queries
MergeImages ==
    {"https://img.pdd.cn/g/1.jpg?w=2", "https://img.pdd.cn/g/7.jpg",
     "https://img.pdd.cn/g/7.jpg?w=2", "https://img.pdd.cn/g/8.jpg"}

MergeVideos ==
    {"https://v.pdd.cn/c/1.mp4?t=2", "https://v.pdd.cn/c/4.mp4", "https://v.pdd.cn/c/5.mp4"}

MergeLists(urls) == UNION {[1..n -> urls] : n \in 0..MaxIncoming}

\* The state, held in probe:
\*   first     the base before the first merge
\*   before    the base before the latest merge
\*   base      the base now
\*   incoming  the result merged last
\*   merges    how many results were merged
\*   again     whether the latest merge repeated the one before it
MergeInit ==
    /\ PpiIdle
    /\ \E base \in MergeBases :
          probe = [fn |-> "merge_info", first |-> base, before |-> base, base |-> base,
                   incoming |-> ProductInfo(""), merges |-> 0, again |-> FALSE]

\* line 898: merge_info(info, dynamic_info, source_label=...)
MergeIncoming ==
    /\ probe.fn = "merge_info"
    /\ probe.merges < MaxMerges
    /\ ~probe.again
    /\ \E images \in MergeLists(MergeImages), videos \in MergeLists(MergeVideos) :
       \E incoming \in {[ProductInfo(DYNAMIC_SOURCE) EXCEPT !.images = images,
                                                            !.videos = videos]} :
          probe' = [probe EXCEPT !.before = probe.base,
                                 !.base = merge_info(probe.base, incoming, "dynamic"),
                                 !.incoming = incoming,
                                 !.merges = @ + 1]
    /\ UNCHANGED ppi_vars

\* the result merged last is merged a second time
MergeAgain ==
    /\ probe.fn = "merge_info"
    /\ probe.merges > 0
    /\ ~probe.again
    /\ probe' = [probe EXCEPT !.before = probe.base,
                              !.base = merge_info(probe.base, probe.incoming, "dynamic"),
                              !.again = TRUE]
    /\ UNCHANGED ppi_vars

MergeNext ==
    \/ MergeIncoming
    \/ MergeAgain

SpecMerge == MergeInit /\ [][MergeNext]_vars

\* ------------------------------------------------------------------------
\* Properties
\* ------------------------------------------------------------------------

\* C1 (cap invariant): every result parse_static produced, the latest result
\* of a dynamic attempt, the seed and the running and returned result of
\* parse_product_info, the one merge_info leaves after every merge, hold at
\* most 6 images and at most 3 videos.
C1_CapInvariant ==
    LET Capped(i) == Len(i.images) <= 6 /\ Len(i.videos) <= 3
    IN  /\ \A k \in 1..Len(static_infos) : Capped(static_infos[k])
        /\ Capped(dynamic_info)
        /\ Capped(best)
        /\ Capped(info)

\* C1: a call has returned a result at both caps after a merge for which
\* more images than the cap had been found.
C1_Witness ==
    /\ pc = "done"
    /\ Len(info.images) = 6
    /\ Len(info.videos) = 3
    /\ Get(info.raw, "merge_from", <<>>) # <<>>
    /\ Len(Get(info.raw, "image_candidates", <<>>)) > 6

\* C2, as it is written: when every dynamic attempt has failed, the returned
\* result has the title, the images and the videos of the static seed.
C2_SeedReturnedUnchanged ==
    (pc = "done" /\ DynamicCalls # <<>> /\ \A k \in 1..Len(DynamicCalls) : ~DynamicCalls[k].ok)
        => /\ info.title = best.title
           /\ info.images = best.images
           /\ info.videos = best.videos

\* C2, amended: once a static attempt has succeeded the call never raises and
\* comes to return, whichever dynamic attempts fail; when every dynamic
\* attempt has failed, the returned result has the title and the images of
\* the static seed, and of its videos those the final validity filter keeps.
C2_SeedReturnedFiltered ==
    /\ [](static_infos # <<>> => pc # "raised")
    /\ [](pc = "dynamic" => Len(dynamic_logs) < Len(dynamic_attempt_urls))
    /\ []((pc = "done" /\ DynamicCalls # <<>>
              /\ \A k \in 1..Len(DynamicCalls) : ~DynamicCalls[k].ok)
            => /\ info.title = best.title
               /\ info.images = best.images
               /\ info.videos = Take(filter_valid_video_urls(best.videos), 3))
    /\ (static_infos # <<>> ~> pc = "done")

\* C2: a call has returned after two dynamic attempts, both failed, on a
\* seed that held videos.
C2_Witness ==
    /\ pc = "done"
    /\ Len(DynamicCalls) >= 2
    /\ \A k \in 1..Len(DynamicCalls) : ~DynamicCalls[k].ok
    /\ best.videos # <<>>
    /\ info.videos # <<>>

\* C3: the call raises exactly when every static attempt, one per candidate
\* URL, has failed; the message then lists every candidate with its reason
\* and no dynamic attempt has been made; after a static success the call goes
\* on, and the failed URLs are in the diagnostics of the result.
C3_FailsIffAllStaticFail ==
    LET failed == SelectSeq(StaticCalls, LAMBDA c : ~c.ok)
        Line(c) == c.url \o " -> " \o c.reason
    IN  /\ \A k \in 1..Len(StaticCalls) : StaticCalls[k].url = candidate_urls[k]
        /\ pc = "raised" =>
              /\ Len(failed) = Len(candidate_urls)
              /\ DynamicCalls = <<>>
              /\ error = STATIC_ALL_FAILED
                            \o Join([k \in 1..Len(failed) |-> Line(failed[k])], " | ")
        /\ (pc = "static" /\ Len(failed) = Len(candidate_urls)) =>
              /\ ENABLED StaticAllFailed
              /\ ~ENABLED ReturnStatic
              /\ ~ENABLED PlanDynamic
        /\ (pc = "static" /\ Len(failed) < Len(candidate_urls)) => ~ENABLED StaticAllFailed
        /\ pc \in {"dynamic", "finalize", "done"} =>
              /\ Len(StaticCalls) = Len(candidate_urls)
              /\ Len(failed) < Len(candidate_urls)
              /\ failed # <<>> =>
                    Get(info.raw, "static_errors", <<>>)
                       = [k \in 1..Len(failed) |-> Line(failed[k])]

\* C3: a call with two candidate URLs has raised.
C3_Witness ==
    /\ pc = "raised"
    /\ Len(candidate_urls) = 2
    /\ Len(StaticCalls) = 2

\* C4: no static attempt follows a dynamic one, a dynamic attempt is made
\* only after every static attempt, and a returned call has made a dynamic
\* attempt exactly when its seed lacked a title, an image or a video; a
\* complete seed is returned as it is.
C4_DynamicIffSeedIncomplete ==
    LET complete == best.title # "" /\ Len(best.images) >= 1 /\ Len(best.videos) >= 1
    IN  /\ \A a, b \in 1..Len(calls) :
              (a < b /\ calls[a].kind = "dynamic") => calls[b].kind = "dynamic"
        /\ DynamicCalls # <<>> => Len(StaticCalls) = Len(candidate_urls)
        /\ pc \in {"dynamic", "finalize"} => ~complete
        /\ pc \in {"finalize", "done"} => (complete <=> DynamicCalls = <<>>)
        /\ (pc = "done" /\ complete) =>
              /\ info.title = best.title
              /\ info.images = best.images
              /\ info.videos = best.videos

\* C4: the seed had the title "Test Product" and one image but no video, and
\* the call returned after a dynamic attempt.
C4_Witness ==
    /\ pc = "done"
    /\ best.title = "Test Product"
    /\ best.images = <<"https://x/a.jpg">>
    /\ best.videos = <<>>
    /\ DynamicCalls # <<>>

\* C5: the k-th dynamic attempt is on the k-th URL of the queue and the k-th
\* entry of the log is its outcome, ok or failed; the loop is left only at
\* the end of the queue or after a success with a video in the running
\* result; and no attempt is started after such a success.
C5_DynamicOrder ==
    /\ [](/\ Len(dynamic_logs) = Len(DynamicCalls)
          /\ Len(DynamicCalls) <= Len(dynamic_attempt_urls)
          /\ \A k \in 1..Len(DynamicCalls) :
                /\ DynamicCalls[k].url = dynamic_attempt_urls[k]
                /\ dynamic_logs[k] = IF DynamicCalls[k].ok
                                     THEN DynamicCalls[k].url \o " -> ok"
                                     ELSE DynamicCalls[k].url \o " -> failed: "
                                             \o DynamicCalls[k].reason
          /\ pc = "finalize" =>
                \/ Len(DynamicCalls) = Len(dynamic_attempt_urls)
                \/ DynamicCalls[Len(DynamicCalls)].ok /\ info.videos # <<>>
          /\ (pc = "dynamic" /\ DynamicCalls # <<>>) =>
                /\ Len(DynamicCalls) < Len(dynamic_attempt_urls)
                /\ ~DynamicCalls[Len(DynamicCalls)].ok \/ info.videos = <<>>
          /\ pc = "done" => Get(info.raw, "dynamic_attempts", <<>>) = dynamic_logs)
    /\ [][Len(DynamicCalls') # Len(DynamicCalls) =>
             /\ Len(DynamicCalls') = Len(DynamicCalls) + 1
             /\ \/ DynamicCalls = <<>>
                \/ ~DynamicCalls[Len(DynamicCalls)].ok
                \/ info.videos = <<>>]_vars

\* C5: with a queue of three URLs, the first attempt failed, the second
\* succeeded with a video, and the call returned without a third.
C5_Witness ==
    /\ pc = "done"
    /\ Len(dynamic_attempt_urls) = 3
    /\ Len(dynamic_logs) = 2
    /\ ~DynamicCalls[1].ok
    /\ DynamicCalls[2].ok
    /\ dynamic_info.videos # <<>>
    /\ info.videos # <<>>

\* C6: when the dynamic loop was left before the end of its queue, after a
\* successful attempt that brought a video, the returned result has a video.
C6_EarlyStopKeepsVideo ==
    (/\ pc = "done"
     /\ DynamicCalls # <<>>
     /\ Len(DynamicCalls) < Len(dynamic_attempt_urls)
     /\ DynamicCalls[Len(DynamicCalls)].ok
     /\ dynamic_info.videos # <<>>)
        => info.videos # <<>>

\* C7: every entry of the video list and of the video-candidate list of a
\* returned result passes the test of the final validity filter.
C7_ReturnedVideosValid ==
    pc = "done" =>
        /\ \A k \in 1..Len(info.videos) : is_valid_video_url(info.videos[k])
        /\ \A k \in 1..Len(Get(info.raw, "video_candidates", <<>>)) :
              is_valid_video_url(info.raw["video_candidates"][k])

\* C8: a merge sets the title of the running result to the incoming title
\* when that is non-empty and the running title is empty or the placeholder,
\* and leaves it as it is otherwise; so a real title of the seed is the
\* title of the result after any number of merges.
C8_MergeTitleRule ==
    /\ [][(Len(DynamicCalls') > Len(DynamicCalls) /\ DynamicCalls'[Len(DynamicCalls')].ok) =>
             info'.title = IF dynamic_info'.title # ""
                                 /\ (info.title = "" \/ info.title = PLACEHOLDER_TITLE)
                           THEN dynamic_info'.title
                           ELSE info.title]_vars
    /\ []((pc \in {"dynamic", "finalize", "done"}
              /\ best.title # "" /\ best.title # PLACEHOLDER_TITLE)
            => info.title = best.title)

\* C8: the seed held the placeholder and the returned result holds the real
\* title a dynamic attempt brought.
C8_Witness ==
    /\ pc = "done"
    /\ best.title = PLACEHOLDER_TITLE
    /\ dynamic_info.title = "Dynamic Product"
    /\ info.title = "Dynamic Product"

\* C9: the score is 100 per video plus 10 per image plus 1 for a title that
\* is neither empty nor the placeholder, and the score of a result with one
\* more video is greater than its score without it.
C9_ScoreFormula ==
    (probe.fn = "score_info" /\ probe.stage = "scored") =>
        /\ probe.score = 100 * Len(probe.info.videos) + 10 * Len(probe.info.images)
                            + (IF probe.info.title \notin {"", PLACEHOLDER_TITLE} THEN 1 ELSE 0)
        /\ probe.before >= 0 => probe.score > probe.before

\* C9: a result with the placeholder title and images has been scored before
\* and after a video was added to it.
C9_Witness ==
    /\ probe.fn = "score_info"
    /\ probe.stage = "scored"
    /\ probe.before >= 0
    /\ probe.info.title = PLACEHOLDER_TITLE
    /\ Len(probe.info.images) = NumPageImages
    /\ Len(probe.info.videos) = NumPageVideos

\* C10: for a URL an id is extracted from, the canonical form of its
\* canonical form is its canonical form, and the id extracted from the
\* canonical form is the id extracted from the URL.
C10_CanonicalIdempotent ==
    (probe.fn = "canonicalize_pdd_goods_url" /\ probe.stage = "twice" /\ probe.id # "") =>
        /\ probe.twice = probe.once
        /\ probe.id_after = probe.id

\* C10: a URL that is not canonical, whose id is the escaped value of its gid
\* key, has been canonicalised twice.
C10_Witness ==
    /\ probe.fn = "canonicalize_pdd_goods_url"
    /\ probe.stage = "twice"
    /\ probe.id = "912345"
    /\ probe.once # probe.url
    /\ ~Contains(probe.url, "goods_id")

\* the share text of the scenario: four non-ASCII characters, a space, the
\* URL with goods_id=42, a space and a fullwidth comma
C11_ShareText ==
    "@@@@ https://mobile.yangkeduo.com/xyz.html?goods_id=42 " \o FULLWIDTH_COMMA

\* C11 as stated: for the share text whose URL has goods_id=42 followed by
\* non-ASCII punctuation, normalize_url returns the URL without the
\* punctuation, extract_goods_id returns "42" and the canonical URL is the
\* fixed-template goods URL of that id.
C11_ShortIdCanonicalised ==
    (probe.fn = "normalize_url" /\ probe.stage = "canonical"
        /\ probe.text = C11_ShareText) =>
        /\ probe.url = "https://mobile.yangkeduo.com/xyz.html?goods_id=42"
        /\ probe.id = "42"
        /\ probe.canonical = CANONICAL_PREFIX \o "42"

\* C11 amended: for every share text whose http(s) URL is followed by
\* whitespace or by trailing marks, normalize_url returns the URL without
\* the marks; an id of fewer than 5 digits, such as 42, is not extracted, and the
\* canonical URL is then the normalized URL unchanged; an id of 5 or more
\* digits gives the fixed-template goods URL.
C11_ShortIdLeftUnchanged ==
    (probe.fn = "normalize_url" /\ probe.stage = "canonical") =>
        /\ \A l \in ShareLeads, t \in ShareTokens, e \in ShareTails :
              (probe.text = l \o t \o e /\ StartsWith(t, "http")) => probe.url = t
        /\ \A id \in ShareIds :
              EndsWith(probe.url, "=" \o id) =>
                  IF Len(id) < MIN_ID_DIGITS
                  THEN probe.id = "" /\ probe.canonical = probe.url
                  ELSE probe.id = id /\ probe.canonical = CANONICAL_PREFIX \o id

\* C11: the share text of the scenario has been normalized and
\* canonicalised, and its canonical URL is the normalized URL.
C11_Witness ==
    /\ probe.fn = "normalize_url"
    /\ probe.stage = "canonical"
    /\ probe.text = C11_ShareText
    /\ probe.url = "https://mobile.yangkeduo.com/xyz.html?goods_id=42"
    /\ probe.canonical = probe.url

\* the part of a URL uniq_by_path compares: what precedes the first "?"
C12_Path(url) == BeforeFirst(url, "?")

\* the list holds no two entries of one path, and each entry is the first
\* normalised candidate of its class and path, in candidate order
C12_FirstSeen(list, class) ==
    LET first(k) ==
            Least({i \in 1..Len(probe.urls) :
                      /\ probe.classes[i] = class
                      /\ C12_Path(probe.urls[i]) = C12_Path(list[k])}, 0)
    IN  /\ \A j, k \in 1..Len(list) : j # k => C12_Path(list[j]) # C12_Path(list[k])
        /\ \A k \in 1..Len(list) : first(k) > 0 /\ list[k] = probe.urls[first(k)]
        /\ \A j, k \in 1..Len(list) : j < k => first(j) < first(k)
        /\ \A i \in 1..Len(probe.urls) :
              probe.classes[i] = class =>
                  \E k \in 1..Len(list) : C12_Path(list[k]) = C12_Path(probe.urls[i])

\* C12 (dedup invariant): neither list classify_media_urls returns holds two
\* entries with the same path before the query string; the entry kept is
\* the first one seen, with its own query string, and the entries are in
\* first-seen order.
C12_DedupByPath ==
    (probe.fn = "classify_media_urls" /\ probe.stage = "each") =>
        /\ C12_FirstSeen(probe.images, "image")
        /\ C12_FirstSeen(probe.videos, "video")

\* C12: a batch that holds one image under two query strings with a video
\* between them has been classified; the first spelling was kept.
C12_Witness ==
    /\ probe.fn = "classify_media_urls"
    /\ probe.stage = "each"
    /\ probe.candidates = <<"https://img.pdd.cn/g/1.jpg?w=200",
                            "https://vid.pdd.cn/v/1.mp4",
                            "https://img.pdd.cn/g/1.jpg">>
    /\ probe.images = <<"https://img.pdd.cn/g/1.jpg?w=200">>
    /\ probe.videos = <<"https://vid.pdd.cn/v/1.mp4">>

\* an absolute, scheme-qualified URL: a scheme and a host
C13_IsAbsolute(url) ==
    \E parsed \in {urlparse(url)} : parsed.scheme # "" /\ parsed.netloc # ""

\* C13: in every result parse_static produced, in the latest result of a
\* dynamic attempt and in the result parse_product_info returns, every entry
\* of images and of videos is an absolute, scheme-qualified URL.
C13_MediaAbsolute ==
    \A i \in {static_infos[k] : k \in 1..Len(static_infos)}
                \cup {dynamic_info} \cup (IF pc = "done" THEN {info} ELSE {}) :
        /\ \A k \in 1..Len(i.images) : C13_IsAbsolute(i.images[k])
        /\ \A k \in 1..Len(i.videos) : C13_IsAbsolute(i.videos[k])

\* C14 (false-positive resistance): a URL with a static-asset extension is
\* in neither list, whatever keyword it holds; an absolute URL ending in
\* /assets/video-player/clip.mp4 is a video; a URL that is not absolute
\* after normalisation is in neither list; and an image or video extension
\* decides the list before any keyword is looked at.
C14_FalsePositiveResistance ==
    (probe.fn = "classify_url" /\ probe.stage = "classified") =>
        \E low \in {Lower(probe.url)} :
            /\ ExtSearch(low, STATIC_ASSET_EXTS) => probe.class = "none"
            /\ (C13_IsAbsolute(probe.url)
                    /\ EndsWith(probe.url, "/assets/video-player/clip.mp4"))
                => probe.class = "video"
            /\ ~C13_IsAbsolute(probe.url) => probe.class = "none"
            /\ (C13_IsAbsolute(probe.url) /\ ~ExtSearch(low, STATIC_ASSET_EXTS)) =>
                  /\ ExtSearch(low, IMAGE_EXTS) => probe.class = "image"
                  /\ (ExtSearch(low, VIDEO_EXTS) /\ ~ExtSearch(low, IMAGE_EXTS))
                        => probe.class = "video"

\* the positions of a step in the trace of the call
C15_At(step) == {i \in 1..Len(probe.trace) : probe.trace[i] = step}

\* C15: within one call of parse_dynamic_with_playwright the listeners are
\* registered before any navigation, navigation precedes DOM evaluation and
\* DOM evaluation precedes the teardown; and on every exit of a call that
\* registered its listeners, remove_listener has been called for all four
\* of them (request, response, popup, context page), including when
\* navigation or DOM evaluation raised.
C15_TeardownOnEveryExit ==
    probe.fn = "parse_dynamic_with_playwright" =>
        /\ \A r \in C15_At("register"), g \in C15_At("goto") : r < g
        /\ \A g \in C15_At("goto"), e \in C15_At("evaluate") : g < e
        /\ \A e \in C15_At("evaluate"), t \in C15_At("teardown") : e < t
        /\ (probe.pc = "ended" /\ C15_At("register") # {}) =>
              probe.removals = Range(PAGE_LISTENERS) \cup Range(CONTEXT_LISTENERS)

\* C16: when no live page is supplied, every call that launched a browser
\* context of its own has called close on that context and stop on its
\* driver by the time it ends, whether it returns or raises.
C16_OwnBrowserClosed ==
    (probe.fn = "parse_dynamic_with_playwright" /\ probe.pc = "ended"
        /\ ~probe.live /\ probe.context # "absent") =>
        probe.disposals = <<"context.close", "p.stop">>

\* C17: during one call, on_response captures and processes at most 80
\* qualifying response bodies, however many responses it sees.
C17_AtMost80Bodies ==
    probe.fn = "on_response" => probe.bodies <= JSON_URLS_LIMIT

\* C18: goto_with_recover makes at most two page.goto calls (and at most one
\* reload of a blank page).  When the first try fails because the target
\* was torn down, a page is taken from the same context (the held page when
\* it is open, else another open page, else a new one, and the session
\* holds the page taken) and page.goto is called exactly once more; when no
\* page can be had or that retry fails, the call raises the error that
\* tells the user to close and reopen the session.
C18_RecoverOnce ==
    probe.fn = "goto_with_recover" =>
        /\ probe.gotos <= 2
        /\ probe.reloads <= 1
        /\ (probe.pc = "ended" /\ Contains(probe.first_error, TARGET_CLOSED))
              => probe.how # ""
        /\ probe.how # "" =>
              /\ Contains(probe.first_error, TARGET_CLOSED)
              /\ probe.how = "held" <=> probe.found.browser.page_open
              /\ probe.how = "held" => probe.page = probe.found.held
              /\ probe.how = "reused" => probe.found.browser.spare_open
              /\ probe.how = "opened" =>
                    ~probe.found.browser.spare_open /\ probe.found.browser.context_alive
              /\ probe.how \in {"reused", "opened"} =>
                    probe.page # probe.found.held /\ probe.held = probe.page
              /\ probe.how = "failed" =>
                    /\ ~probe.found.browser.context_alive
                    /\ probe.gotos = 1
                    /\ probe.outcome = "raised"
              /\ probe.how # "failed" => probe.gotos = 2
              /\ probe.outcome = "raised" => probe.error = SESSION_UNUSABLE

\* C18: the first page.goto failed on a torn-down target, the recovery found
\* no open page, opened a new one that the session now holds, and the retry
\* on it failed as well.
C18_Witness ==
    /\ probe.fn = "goto_with_recover"
    /\ probe.outcome = "raised"
    /\ probe.error = SESSION_UNUSABLE
    /\ probe.gotos = 2
    /\ probe.reloads = 0
    /\ probe.how = "opened"
    /\ probe.held = probe.page

\* C19: no failure of a browser navigation leaves goto_with_recover other
\* than as the error of its final recovery attempt.
C19_NavigationFailureCaught ==
    (probe.fn = "goto_with_recover" /\ probe.outcome = "raised" /\ probe.gotos > 0) =>
        /\ probe.error = SESSION_UNUSABLE
        /\ probe.how # ""

\* the position of a call in the calls close_login_browser_session made, 0
\* when it was not made
C20_Position(name) ==
    IF \E i \in 1..Len(probe.calls) : probe.calls[i] = name
    THEN CHOOSE i \in 1..Len(probe.calls) : probe.calls[i] = name
    ELSE 0

\* C20: close_login_browser_session persists the storage state, then
\* releases the context, the browser and the driver in that order; on every
\* execution, one where a step raises included, no context is left open
\* without close having been called on it, and close has been called on the
\* browser and stop on the driver the session holds, when the call returns;
\* the call never raises, and it makes no call other than these four (it
\* kills no process).
C20_CloseReleasesAll ==
    probe.fn = "close_login_browser_session" =>
        /\ probe.outcome # "raised"
        /\ \A i \in 1..Len(probe.calls) :
              probe.calls[i] \in {"context.storage_state", "context.close",
                                  "browser.close", "pw.stop"}
        /\ \A i, j \in 1..Len(probe.calls) :
              i < j => C20_Position(probe.calls[i]) < C20_Position(probe.calls[j])
        /\ (C20_Position("context.close") > 0 /\ C20_Position("browser.close") > 0)
              => C20_Position("context.close") < C20_Position("browser.close")
        /\ (C20_Position("browser.close") > 0 /\ C20_Position("pw.stop") > 0)
              => C20_Position("browser.close") < C20_Position("pw.stop")
        /\ C20_Position("context.close") > 0
              => C20_Position("context.storage_state") = 1
        /\ probe.outcome = "returned" =>
              /\ probe.context = "open" => C20_Position("context.close") > 0
              /\ probe.browser # "none" => C20_Position("browser.close") > 0
              /\ probe.pw # "none" => C20_Position("pw.stop") > 0

\* the positions where word occurs in s
C27_Occurrences(s, word) ==
    {i \in 1..Len(s) : i + Len(word) - 1 <= Len(s) /\ SubSeq(s, i, i + Len(word) - 1) = word}

\* a hint and a path token occur in low at places that do not overlap
C27_TwoSignals(low, hints, tokens) ==
    \E h \in hints, t \in tokens :
        \E i \in C27_Occurrences(low, h), j \in C27_Occurrences(low, t) :
            i + Len(h) <= j \/ j + Len(t) <= i

\* C27: a URL without a recognised image, video or static-asset extension
\* is classified as a video (an image) only when a video (image) hint and a
\* separate video (image) path token both occur in it: one substring alone,
\* such as the "cover" of /discover or a lone /play, never classifies it.
C27_TwoSignalRule ==
    (probe.fn = "classify_url" /\ probe.stage = "classified") =>
        \E low \in {Lower(probe.url)} :
            ~(ExtSearch(low, STATIC_ASSET_EXTS) \/ ExtSearch(low, IMAGE_EXTS)
                \/ ExtSearch(low, VIDEO_EXTS)) =>
                /\ probe.class = "video" =>
                      C27_TwoSignals(low, VIDEO_HINTS, VIDEO_PATH_TOKENS)
                /\ probe.class = "image" =>
                      C27_TwoSignals(low, IMAGE_HINTS, IMAGE_PATH_TOKENS)

\* whether a result carries a title other than the placeholder
C28_RealTitle(i) == i.title # "" /\ i.title # PLACEHOLDER_TITLE

\* a ranks before b: more videos; as many videos and more images; as many
\* of both and the real title that b lacks
C28_Before(a, b) ==
    \/ Len(a.videos) > Len(b.videos)
    \/ Len(a.videos) = Len(b.videos) /\ Len(a.images) > Len(b.images)
    \/ /\ Len(a.videos) = Len(b.videos)
       /\ Len(a.images) = Len(b.images)
       /\ C28_RealTitle(a) /\ ~C28_RealTitle(b)

\* C28: of two results within the caps (at most 6 images, at most 3 videos)
\* the one with more videos has the higher score, whatever their images and
\* titles; the seed is the result with the most videos, then the most
\* images, then the real title, then the first attempted.
C28_VideoDominates ==
    (probe.fn = "best_static" /\ probe.stage = "chosen") =>
        \E a \in {probe.static_infos[1]}, b \in {probe.static_infos[2]} :
            /\ Len(a.videos) > Len(b.videos) => probe.scores[1] > probe.scores[2]
            /\ Len(b.videos) > Len(a.videos) => probe.scores[2] > probe.scores[1]
            /\ probe.best = IF C28_Before(b, a) THEN b ELSE a
            /\ Len(probe.best.videos) >= Len(a.videos)
            /\ Len(probe.best.videos) >= Len(b.videos)

\* C28: the second result, with one video, no image and no title, is chosen
\* over the first, with six images, a real title and no video.
C28_Witness ==
    /\ probe.fn = "best_static"
    /\ probe.stage = "chosen"
    /\ Len(probe.static_infos[1].images) = MAX_IMAGES
    /\ C28_RealTitle(probe.static_infos[1])
    /\ probe.static_infos[1].videos = <<>>
    /\ probe.static_infos[2].images = <<>>
    /\ probe.static_infos[2].title = ""
    /\ Len(probe.static_infos[2].videos) = 1
    /\ probe.best = probe.static_infos[2]

\* C30: once parse_product_info has built its dynamic-attempt queue, the
\* queue is non-empty, has at most three entries and no URL twice, and no
\* URL in it matches a blocked-redirect pattern; so no dynamic attempt is
\* made on such a URL.
C30_QueueNeverBlocked ==
    /\ pc \in {"dynamic", "finalize"} =>
          /\ dynamic_attempt_urls # <<>>
          /\ Len(dynamic_attempt_urls) <= 3
          /\ \A i, j \in 1..Len(dynamic_attempt_urls) :
                i # j => dynamic_attempt_urls[i] # dynamic_attempt_urls[j]
          /\ \A i \in 1..Len(dynamic_attempt_urls) :
                ~is_blocked_jump_url(dynamic_attempt_urls[i])
    /\ \A k \in 1..Len(DynamicCalls) : ~is_blocked_jump_url(DynamicCalls[k].url)

\* C29: a call on a live page that does not look logged out makes no
\* page.goto; a call without a live page, or on one that looks logged out
\* (or whose look raised), calls page.goto(source_url) once, and once more,
\* again with source_url, only when the first landed on a URL that matches a
\* blocked-redirect pattern; no call makes more than two.
C29_NavigationCount ==
    probe.fn = "parse_dynamic_with_playwright" =>
        /\ Len(probe.navigations) <= 2
        /\ \A k \in 1..Len(probe.navigations) :
              probe.navigations[k].target = probe.source_url
        /\ Len(probe.navigations) = 2 => is_blocked_jump_url(probe.navigations[1].landed)
        /\ (probe.live /\ probe.looked = "no") => probe.navigations = <<>>
        /\ (probe.pc \in {"settle", "evaluate", "teardown_page", "teardown_context",
                          "dispose", "ended"}
              /\ "register" \in Range(probe.trace)
              /\ (~probe.live \/ probe.looked \in {"yes", "raised"}))
            => Len(probe.navigations) >= 1

\* C29: a call on a live page that looked logged out was sent to a blocked
\* URL by its first page.goto, made a second one, and returned.
C29_Witness ==
    /\ probe.fn = "parse_dynamic_with_playwright"
    /\ probe.live
    /\ probe.looked = "yes"
    /\ probe.outcome = "returned"
    /\ Len(probe.navigations) = 2
    /\ is_blocked_jump_url(probe.navigations[1].landed)
    /\ probe.navigations[2].landed = probe.source_url

\* C21: when a run of main has ended, every page.goto that returned on the
\* session's page (in goto_with_recover, in its recovery, in a dynamic
\* attempt) is followed by a call of context.storage_state(path=...) before
\* the next page.goto that returns and before the end of the run.
C21_FlushedAfterNavigation ==
    (probe.fn = "main" /\ probe.pc = "ended") =>
        \A i \in 1..Len(probe.events) :
            probe.events[i] = "goto" =>
                \E j \in (i + 1)..Len(probe.events) :
                    /\ probe.events[j] = "storage_state"
                    /\ \A k \in (i + 1)..(j - 1) : probe.events[k] # "goto"

\* C22: in a run without the operator's confirmation parse_product_info and
\* parse_dynamic_with_playwright are never called; once goto_with_recover
\* has returned, storage_state is called and the run ends with the warning,
\* without st.exception; extraction is called only in a confirmed run.
C22_AuthGate ==
    /\ [][(RunAt("gate") /\ ~probe.login_confirmed) =>
             /\ probe'.pc = "ended"
             /\ probe'.outcome = "gated"
             /\ probe'.events = probe.events \o <<"storage_state", "st.warning">>]_vars
    /\ [](probe.fn = "main" =>
             /\ \A i \in 1..Len(probe.events) :
                   probe.events[i] \in {"parse_product_info", "parse_dynamic_with_playwright",
                                        "generate_ai_copy"}
                      => probe.login_confirmed
             /\ probe.outcome = "gated" =>
                   /\ ~probe.login_confirmed
                   /\ probe.info = ""
                   /\ \A i \in 1..Len(probe.events) : probe.events[i] # "st.exception"
             /\ probe.outcome = "delivered" => probe.login_confirmed)

\* C22: an unconfirmed run launched a session, navigated, stored the state
\* and ended at the gate.
C22_Witness ==
    /\ probe.fn = "main"
    /\ ~probe.login_confirmed
    /\ probe.outcome = "gated"
    /\ probe.events = <<"launch", "goto", "storage_state", "st.warning">>

\* C25: the ProductInfo a run delivers has the normalized input of the
\* operator as its source_url, not the URL the page was redirected to and
\* not the canonical goods URL.
C25_SourceUrlIsRequested ==
    (probe.fn = "main" /\ probe.outcome = "delivered") => probe.info = probe.source_url

\* the sessions that are open: launched, their context not gone, and
\* close_login_browser_session never called on them
C23_Open == {k \in 1..Len(probe.sessions) :
                probe.sessions[k].context = "open" /\ ~probe.sessions[k].closed}

\* C23: whatever buttons the operator presses, at most one browser session
\* is open at any time; a session is launched only when none is stored or
\* the stored one fails the probe; a stored session that fails the probe is
\* closed before its replacement is launched; a stored session that passes
\* the probe is the one the next run uses.
C23_SingleSession ==
    probe.fn = "sessions" =>
        /\ Cardinality(C23_Open) <= 1
        /\ probe.last.launched => ~probe.last.alive
        /\ (probe.last.launched /\ probe.last.before # 0) =>
              /\ probe.last.closed
              /\ probe.sessions[probe.last.before].closed
        /\ (probe.last.button = "run" /\ probe.last.alive) =>
              ~probe.last.launched /\ probe.stored = probe.last.before

\* C24: browser_session_alive says no exactly when no session is stored,
\* the session has no context, or its context says closed or the question
\* raises; a closed page in an open context leaves the session alive, and
\* the run that follows launches no session: goto_with_recover takes
\* another open page of the same context, or opens one, and the session
\* holds that page.
C24_AliveIffContextOpen ==
    [][(probe.fn = "sessions" /\ probe'.presses = probe.presses + 1) =>
          /\ probe'.last.alive <=> (probe'.last.answer.present
                                      /\ probe'.last.answer.context = "open")
          /\ (probe'.last.button = "run" /\ probe'.last.answer.context = "open"
                  /\ probe'.last.answer.page = "closed") =>
                /\ probe'.last.alive
                /\ ~probe'.last.launched
                /\ ~probe'.last.closed
                /\ probe'.stored = probe.stored
                /\ probe'.sessions[probe.stored].context = "open"
                /\ probe'.last.how \in {"reused", "opened"}
                /\ probe'.last.how = "reused" <=> probe.sessions[probe.stored].spare_open
                /\ probe'.sessions[probe.stored].held = probe'.last.page
                /\ probe'.sessions[probe.stored].held # probe.sessions[probe.stored].held
                /\ probe'.sessions[probe.stored].page_open
                /\ ~probe'.sessions[probe.stored].closed
                /\ Len(probe'.sessions) = Len(probe.sessions)]_vars

\* C24: a run found the page of its live session closed and no other page
\* open, and went on with a new page of the same context.
C24_Witness ==
    /\ probe.fn = "sessions"
    /\ probe.last.button = "run"
    /\ probe.last.alive
    /\ probe.last.answer.page = "closed"
    /\ probe.last.how = "opened"
    /\ Len(probe.sessions) = 1
    /\ probe.sessions[1].held = 2

\* C26: generate_ai_copy never raises and returns the three texts; when no
\* key is configured, the client cannot be imported, the call of the
\* service fails, or its answer cannot be parsed or lacks one of the three
\* fields, the value returned is fallback_copy(info), which depends on the
\* title alone.
C26_CopyAlwaysYields ==
    (probe.fn = "generate_ai_copy" /\ probe.pc = "ended") =>
        /\ probe.outcome = "returned"
        /\ DOMAIN probe.result = COPY_FIELDS
        /\ (\/ probe.api_key = ""
            \/ ~probe.importable
            \/ probe.answer.kind # "object"
            \/ ~(COPY_FIELDS \subseteq DOMAIN probe.answer.data))
              => probe.result = fallback_copy([title |-> probe.info.title])

\* C32: no session is discarded without being closed.  Across the
\* operator's presses of run, close, cleanup and force-cleanup, every
\* session that was launched and is no longer the stored one has had
\* close_login_browser_session called on it, a session whose context had
\* already died included.
\* The close button (lines 1060-1064) calls close_login_browser_session
\* only when browser_session_alive says yes and clears the stored
\* reference either way: a session whose window was closed is dropped with
\* its driver never stopped.
C32_DiscardedIsClosed ==
    probe.fn = "sessions" =>
        \A k \in 1..Len(probe.sessions) :
            k # probe.stored => probe.sessions[k].closed

\* the entries of incoming whose path no entry of old has and no earlier
\* entry of incoming has, in their order in incoming
C31_NewEntries(old, incoming) ==
    LET path(url) == BeforeFirst(url, "?")
        keep == {i \in 1..Len(incoming) :
                    /\ \A j \in 1..Len(old) : path(old[j]) # path(incoming[i])
                    /\ \A j \in 1..(i - 1) : path(incoming[j]) # path(incoming[i])}
        nth(k) == CHOOSE i \in keep : Cardinality({j \in keep : j < i}) = k - 1
    IN  [k \in 1..Cardinality(keep) |-> incoming[nth(k)]]

\* new is old followed by the new entries of incoming, up to the cap
C31_Appended(old, new, incoming, cap) ==
    new = old \o Take(C31_NewEntries(old, incoming), cap - Len(old))

\* C31: merging only appends.  For a base whose images and videos are
\* deduplicated by path and within the caps, every merge_info leaves the
\* old images and videos of the base as a prefix of the new lists, followed
\* by the incoming entries of new paths in their incoming order, up to the
\* cap; the lists the base had before the first merge stay a prefix after
\* any sequence of merges; and merging the same incoming result a second
\* time changes neither list.
C31_MergeOnlyAppends ==
    [][(probe.fn = "merge_info" /\ probe'.fn = "merge_info") =>
          /\ probe'.before = probe.base
          /\ C31_Appended(probe.base.images, probe'.base.images,
                          probe'.incoming.images, MAX_IMAGES)
          /\ C31_Appended(probe.base.videos, probe'.base.videos,
                          probe'.incoming.videos, MAX_VIDEOS)
          /\ Take(probe'.base.images, Len(probe'.first.images)) = probe'.first.images
          /\ Take(probe'.base.videos, Len(probe'.first.videos)) = probe'.first.videos
          /\ (probe'.again =>
                 /\ probe'.incoming = probe.incoming
                 /\ probe'.base.images = probe.base.images
                 /\ probe'.base.videos = probe.base.videos)]_vars

\* two results were merged into a base with room for one more image and
\* one more video, the second brought two images and two videos of new
\* paths of which the caps kept one each, and it was merged again
C31_Witness ==
    /\ probe.fn = "merge_info"
    /\ probe.merges = 2
    /\ probe.again
    /\ Len(probe.first.images) = 5
    /\ Len(probe.first.videos) = 2
    /\ probe.incoming.images = <<"https://img.pdd.cn/g/7.jpg?w=2", "https://img.pdd.cn/g/8.jpg">>
    /\ probe.incoming.videos = <<"https://v.pdd.cn/c/5.mp4", "https://v.pdd.cn/c/4.mp4">>
    /\ probe.base.images = probe.first.images \o <<"https://img.pdd.cn/g/7.jpg?w=2">>
    /\ probe.base.videos = probe.first.videos \o <<"https://v.pdd.cn/c/5.mp4">>
====
